---- MODULE Spec2Model ----
(***************************************************************************)
(* Receipt ingestion of the household finance tracker: the line-item       *)
(* reconstruction of app/parser.py (parse_receipt) and the persistence     *)
(* transaction of process_receipt_file / process_receipt_data over the     *)
(* stores, receipts and products tables.                                   *)
(*                                                                         *)
(* Decimal values are exact rationals [n, d] (value n/d); money is counted *)
(* in currency units, so a source amount of 350 minor units becomes        *)
(* 350/100.  Quantization is ROUND_HALF_UP as in the decimal module.       *)
(***************************************************************************)
EXTENDS Integers, Naturals, Sequences, FiniteSets, TLC

\* ------------------------------------------------------------------ bounds
MaxEvents == 3
MaxRuns == 2
MaxFaults == 1
MaxClock == 1

\* ------------------------------------------------------- decimal arithmetic
NoneVal == "<None>"

Abs(x) == IF x < 0 THEN -x ELSE x

RECURSIVE GCD(_, _)
GCD(a, b) == IF b = 0 THEN a ELSE GCD(b, a % b)

Dec(n, d) == [n |-> n, d |-> d]

Norm(r) ==
    LET g == GCD(Abs(r.n), r.d)
    IN IF g = 0 THEN Dec(0, 1) ELSE Dec(r.n \div g, r.d \div g)

DecEq(a, b) == a.n * b.d = b.n * a.d

DecSub(a, b) ==
    LET x == Norm(a)
        y == Norm(b)
    IN Norm(Dec(x.n * y.d - y.n * x.d, x.d * y.d))

DecDiv(a, b) ==
    LET x == Norm(a)
        y == Norm(b)
    IN Norm(Dec(x.n * y.d, x.d * y.n))

\* Decimal.quantize(Decimal('0.01' | '0.001'), rounding=ROUND_HALF_UP):
\* scale is 100 or 1000; ties go away from zero.
quantize(r, scale) ==
    LET x == Norm(r)
        m == Abs(x.n)
        whole == m \div x.d
        rem == m % x.d
        frac == (2 * rem * scale + x.d) \div (2 * x.d)
        mag == whole * scale + frac
    IN Dec(IF x.n < 0 THEN -mag ELSE mag, scale)

\* ------------------------------------------------------- raw JSON scalars
\* k: "int" a JSON integer, "float" a JSON number with a fraction, "str" a
\* numeric string written with '.', "comma" a numeric string written with
\* ',', "null" JSON null, "missing" the key is not in the object.
IntRaw(n) == [k |-> "int", n |-> n, d |-> 1]
FloatRaw(n, d) == [k |-> "float", n |-> n, d |-> d]
StrRaw(n, d) == [k |-> "str", n |-> n, d |-> d]
CommaRaw(n, d) == [k |-> "comma", n |-> n, d |-> d]
NullRaw == [k |-> "null", n |-> 0, d |-> 1]
MissingRaw == [k |-> "missing", n |-> 0, d |-> 1]

\* dict.get(key, default)
get(raw, default) == IF raw.k = "missing" THEN default ELSE raw

\* round(value, 2) of a float: to the nearest hundredth, ties to the even
\* one (the floats used here are dyadic or no ties, so the binary value
\* rounds as the written one does)
round2(r) ==
    LET x == Norm(r)
        m == Abs(x.n)
        lo == (m * 100) \div x.d
        twice == 2 * ((m * 100) % x.d)
        mag == IF twice > x.d \/ (twice = x.d /\ lo % 2 = 1) THEN lo + 1 ELSE lo
    IN Dec(IF x.n < 0 THEN -mag ELSE mag, 100)

safe_decimal(value) ==
    CASE value.k = "null" -> Dec(0, 100)
      [] value.k = "int" -> Dec(value.n, 1)
      [] value.k = "float" -> round2(Dec(value.n, value.d))
      [] value.k = "str" -> Dec(value.n, value.d)
      [] OTHER -> Dec(0, 100)

\* ------------------------------------------------------------- body events
SingleAlpha == {"A", "B", "C"}

Event(tag, name, vatId, price, total, quantity, isStorno, base, value) ==
    [tag |-> tag, name |-> name, vatId |-> vatId, price |-> price,
     total |-> total, quantity |-> quantity, isStorno |-> isStorno,
     base |-> base, value |-> value]

SellLine(name, vatId, price, total, quantity, isStorno) ==
    Event("sellLine", name, vatId, price, total, quantity, isStorno,
          MissingRaw, MissingRaw)

DiscountLine(vatId, base, value) ==
    Event("discountLine", <<>>, vatId, MissingRaw, MissingRaw, MissingRaw,
          FALSE, base, value)

OtherLine(tag) ==
    Event(tag, <<>>, NoneVal, MissingRaw, MissingRaw, MissingRaw, FALSE,
          MissingRaw, MissingRaw)

Mleko == SellLine(<<"Mleko", "3.2%", "A">>, NoneVal, IntRaw(350), IntRaw(350), StrRaw(1, 1), FALSE)
MlekoNoTotal == SellLine(<<"Mleko", "3.2%", "A">>, NoneVal, IntRaw(350), MissingRaw, StrRaw(1, 1), FALSE)
MlekoStorno == SellLine(<<"Mleko", "3.2%", "A">>, NoneVal, IntRaw(350), IntRaw(350), StrRaw(1, 1), TRUE)
Chleb == SellLine(<<"Chleb">>, "B", IntRaw(200), IntRaw(400), StrRaw(2, 1), FALSE)
Ser == SellLine(<<"Ser", "A">>, NoneVal, IntRaw(1000), IntRaw(1500), CommaRaw(15, 10), FALSE)
Torba == SellLine(<<"Torba">>, NoneVal, IntRaw(50), IntRaw(50), MissingRaw, FALSE)
Szynka == SellLine(<<"Szynka", "A">>, NoneVal, IntRaw(2999), IntRaw(375), FloatRaw(125, 1000), FALSE)
Orzechy == SellLine(<<"Orzechy", "A">>, NoneVal, IntRaw(100), StrRaw(1235, 1), StrRaw(12345678, 1000000), FALSE)
RabatMleko == DiscountLine("A", IntRaw(350), IntRaw(50))
RabatMleko2 == DiscountLine("A", IntRaw(350), IntRaw(70))
RabatChleb == DiscountLine("B", IntRaw(400), IntRaw(101))
RabatBase == DiscountLine("A", IntRaw(300), IntRaw(30))
RabatVat == DiscountLine("C", IntRaw(350), IntRaw(50))
AddLine == OtherLine("addLine")

EventPool ==
    {Mleko, MlekoNoTotal, MlekoStorno, Chleb, Ser, Szynka, Orzechy, RabatMleko,
     RabatMleko2, RabatChleb, RabatBase, RabatVat, AddLine}

\* ------------------------------------------- parse_receipt: product loop
\* name_with_vat.rsplit(' ', 1): a name is its whitespace-separated tokens.
HasTaxSuffix(name) == Len(name) >= 2 /\ name[Len(name)] \in SingleAlpha

\* the name as it would be if the tax letter were left on it
product_name_of_whole(sell) == sell.name

product_name_of(sell) ==
    IF HasTaxSuffix(sell.name) THEN SubSeq(sell.name, 1, Len(sell.name) - 1)
    ELSE sell.name

tax_type_of(sell) ==
    IF HasTaxSuffix(sell.name) THEN sell.name[Len(sell.name)]
    ELSE IF sell.vatId = NoneVal THEN "" ELSE sell.vatId

MoneyKeys ==
    {"unit_price_before", "total_price_before", "unit_discount",
     "total_discount", "unit_after_discount", "total_after_discount"}

new_pending(sell) ==
    LET quantity == quantize(safe_decimal(get(sell.quantity, IntRaw(1))), 1000)
        unit_price_before == DecDiv(safe_decimal(get(sell.price, IntRaw(0))), Dec(100, 1))
        total_price_before == DecDiv(safe_decimal(get(sell.total, IntRaw(0))), Dec(100, 1))
    IN [product_name |-> product_name_of(sell),
        tax_type |-> tax_type_of(sell),
        quantity |-> quantity,
        unit_price_before |-> unit_price_before,
        total_price_before |-> total_price_before,
        unit_discount |-> Dec(0, 100),
        total_discount |-> Dec(0, 100),
        unit_after_discount |-> unit_price_before,
        total_after_discount |-> total_price_before]

round_product(p) ==
    [f \in DOMAIN p |-> IF f \in MoneyKeys THEN quantize(p[f], 100) ELSE p[f]]

\* the match as it would be if only the tax type were compared
discount_matches_vat_only(discount, p) == discount.vatId = p.tax_type

discount_matches(discount, p) ==
    /\ discount.vatId = p.tax_type
    /\ DecEq(DecDiv(safe_decimal(get(discount.base, IntRaw(0))), Dec(100, 1)),
             p.total_price_before)

\* the discount as it would be applied if the after-discount prices were
\* not recomputed
apply_discount_stale_after(discount, p) ==
    LET total_discount == DecDiv(safe_decimal(get(discount.value, IntRaw(0))), Dec(100, 1))
    IN [p EXCEPT !.total_discount = total_discount,
                 !.unit_discount = IF p.quantity.n > 0
                                   THEN DecDiv(total_discount, p.quantity)
                                   ELSE p.unit_discount]

apply_discount(discount, p) ==
    LET total_discount == DecDiv(safe_decimal(get(discount.value, IntRaw(0))), Dec(100, 1))
        unit_discount == IF p.quantity.n > 0
                         THEN DecDiv(total_discount, p.quantity)
                         ELSE p.unit_discount
    IN [p EXCEPT !.total_discount = total_discount,
                 !.unit_discount = unit_discount,
                 !.unit_after_discount = DecSub(p.unit_price_before, unit_discount),
                 !.total_after_discount = DecSub(p.total_price_before, total_discount)]

\* One iteration of "for item in receipt_data.get('body', [])"; st is
\* [pending, products] with pending a sequence of length 0 (None) or 1.
\* the step as it would be if the pending product were overwritten
\* without being appended
sell_step_drops_pending(st, item) ==
    [pending |-> <<new_pending(item)>>, products |-> st.products]

sell_step(st, item) ==
    [pending |-> <<new_pending(item)>>,
     products |-> IF st.pending # <<>>
                  THEN Append(st.products, round_product(st.pending[1]))
                  ELSE st.products]

\* the step as it would be if a product took its first matching discount only
discount_step_first_wins(st, item) ==
    IF st.pending # <<>> /\ discount_matches(item, st.pending[1])
          /\ st.pending[1].total_discount.n = 0
    THEN [st EXCEPT !.pending = <<apply_discount(item, st.pending[1])>>]
    ELSE st

discount_step(st, item) ==
    IF st.pending # <<>> /\ discount_matches(item, st.pending[1])
    THEN [st EXCEPT !.pending = <<apply_discount(item, st.pending[1])>>]
    ELSE st

body_step(st, item) ==
    IF item.tag = "sellLine" THEN sell_step(st, item)
    ELSE IF item.tag = "discountLine" THEN discount_step(st, item)
    ELSE st

end_of_body(st) ==
    IF st.pending # <<>>
    THEN Append(st.products, round_product(st.pending[1]))
    ELSE st.products

RECURSIVE walk_body(_, _, _)
walk_body(st, body, i) ==
    IF i > Len(body) THEN st ELSE walk_body(body_step(st, body[i]), body, i + 1)

parse_products(body) ==
    end_of_body(walk_body([pending |-> <<>>, products |-> <<>>], body, 1))

\* ------------------------------------------------------------- documents
\* A receipt document after json.load: the header fields the pipeline reads
\* and the body events.  billNumber/docNumber/txn are "" when the document
\* does not carry them.
Store(name, address, postal_code, city) ==
    [store_name |-> name, store_address |-> address,
     postal_code |-> postal_code, store_city |-> city]

Biedronka == Store("BIEDRONKA", "UL. PIATKOWSKA 78C", "60-649", "POZNAN")
Lidl == Store("LIDL", "UL. DLUGA 1", "00-001", "WARSZAWA")
Zabka == Store("ZABKA", "UL. KROTKA 2", "61-001", "POZNAN")

\* the top-level 'fiscal' object of a document: absent, or its billNumber
\* ("" when it has none) and the date and time parts of its 'date'
NoFiscal == [present |-> FALSE, billNumber |-> "", date |-> "", time |-> ""]
Fiscal(billNumber, date, time) ==
    [present |-> TRUE, billNumber |-> billNumber, date |-> date, time |-> time]

Doc(id, billNumber, docNumber, txn, date, time, fiscalTotal, store, payment, events) ==
    [id |-> id, fiscal |-> NoFiscal, billNumber |-> billNumber, docNumber |-> docNumber,
     txn |-> txn, date |-> date, time |-> time, fiscalTotal |-> fiscalTotal,
     store_name |-> store.store_name, store_address |-> store.store_address,
     postal_code |-> store.postal_code, store_city |-> store.store_city,
     payment |-> payment, events |-> events]

DocA ==
    Doc("a.json", "B1", "", "", "2024-07-01", "10:00:00", IntRaw(4250),
        Biedronka, "Karta",
        <<Mleko, RabatMleko, Mleko, MlekoStorno>>)
DocReexport ==
    Doc("b.json", "B2", "", "", "2024-07-01", "10:00:00", IntRaw(4250),
        Lidl, "Karta", <<Chleb>>)
DocNoNumber ==
    Doc("c.json", "", "", "", "2024-07-02", "11:30:00", IntRaw(399),
        Biedronka, "Karta",
        <<Chleb, RabatChleb>>)
DocBad ==
    Doc("d.json", "B3", "", "", "2024-07-03", "12:00:00", IntRaw(400),
        Zabka, "Karta",
        <<Mleko, Torba>>)
DocIgnored ==
    Doc("e.json", "B4", "", "", "2024-07-04", "13:00:00", IntRaw(100),
        Biedronka, "Bon",
        <<Chleb>>)

\* a document that carries a top-level fiscal object without a billNumber
DocFiscal ==
    [Doc("f.json", "B5", "", "", "2024-07-05", "14:00:00", IntRaw(350),
         Lidl, "Karta", <<Mleko>>)
     EXCEPT !.fiscal = Fiscal("", "2024-07-05", "14:00:00")]
\* a document whose only number is the transaction number of an addLine,
\* paid with a payment name no user is mapped to, written with blanks
\* around it
DocTxn ==
    Doc("g.json", "", "", "98765", "2024-07-06", "15:00:00", IntRaw(400),
        Lidl, " Gotowka ", <<AddLine, Chleb>>)
\* a document without a payment event
DocNoPayment ==
    Doc("h.json", "B6", "", "", "2024-07-07", "16:00:00", IntRaw(350),
        Zabka, "", <<Mleko>>)

\* the export of DocA issued again with a corrected total: same store,
\* number, date and time
DocCorrected ==
    Doc("a2.json", "B1", "", "", "2024-07-01", "10:00:00", IntRaw(4300),
        Biedronka, "Karta", <<Chleb>>)
\* a receipt of another store that carries the number, date and time of DocA
DocOtherStore ==
    Doc("k.json", "B1", "", "", "2024-07-01", "10:00:00", IntRaw(4100),
        Lidl, "Karta", <<Mleko>>)
\* the documents whose keys meet in receipts
KeyDocs == {DocA, DocCorrected, DocOtherStore}

Docs ==
    {DocA, DocReexport, DocNoNumber, DocBad, DocIgnored, DocFiscal, DocTxn,
     DocNoPayment}
FileNames == {d.id : d \in Docs}
\* a file whose content is not JSON
Malformed == "x.json"
AllFiles == FileNames \cup {Malformed} \cup {d.id : d \in KeyDocs}
\* what the operator may type at the payment name prompt ("" is Enter)
TypedNames == {"", "Karta"}
UserIds == {1, 2}
DocOf(f) == CHOOSE d \in Docs \cup KeyDocs : d.id = f

\* receipt number: fiscalFooter billNumber, headerData docNumber,
\* 'Nr transakcji' in an addLine, else str(int(time.time()))
resolve_receipt_number(doc, now) ==
    IF doc.billNumber # "" THEN doc.billNumber
    ELSE IF doc.docNumber # "" THEN doc.docNumber
    ELSE IF doc.txn # "" THEN doc.txn
    ELSE ToString(now)

\* time.time() is read only when the other three sources are empty
reads_clock(doc) == doc.billNumber = "" /\ doc.docNumber = "" /\ doc.txn = ""

\* receipt_header['receipt_number'] as insert_receipt receives it: the
\* resolved number, overwritten by _extract_fiscal_data when the document
\* has a top-level fiscal object
header_receipt_number(doc, now) ==
    IF doc.fiscal.present THEN doc.fiscal.billNumber
    ELSE resolve_receipt_number(doc, now)

\* _extract_fiscal_data: date and time are overwritten likewise
extract_fiscal_data(doc) ==
    IF doc.fiscal.present
    THEN [doc EXCEPT !.date = doc.fiscal.date, !.time = doc.fiscal.time]
    ELSE doc

HeaderOf(f) == extract_fiscal_data(DocOf(f))

\* str(payment_name).strip() on the labels the documents carry
strip(label) == IF label = " Gotowka " THEN "Gotowka" ELSE label

\* final_price: float(safe_decimal(fiscalTotal)) / 100, then safe_decimal
final_price_of(doc) ==
    quantize(DecDiv(safe_decimal(get(doc.fiscalTotal, IntRaw(0))), Dec(100, 1)), 100)

\* ------------------------------------------------------------------- state
VARIABLES body, idx, pending_product, products, parsed,
          stores, receipts, product_rows, next_receipt_id,
          ignored_payment_names, user_payments,
          files, clock, faults, runs, proc, last, call,
          shares, manual_expenses, settlements, settlement_items

parseVars == <<body, idx, pending_product, products, parsed>>
dbVars == <<stores, receipts, product_rows, next_receipt_id,
            ignored_payment_names, user_payments>>
runVars == <<files, clock, faults, runs, proc, last>>
settleVars == <<shares, manual_expenses, settlements, settlement_items>>

vars == <<body, idx, pending_product, products, parsed,
          stores, receipts, product_rows, next_receipt_id,
          ignored_payment_names, user_payments,
          files, clock, faults, runs, proc, last, call,
          shares, manual_expenses, settlements, settlement_items>>

Procs == {1, 2}

NoSnapshot ==
    [stores |-> <<>>, receipts |-> {}, product_rows |-> <<>>, user_payments |-> {}]

IdleProc ==
    [pc |-> "idle", doc |-> "", path |-> "", receipt_number |-> "",
     payment_name |-> "",
     store_id |-> 0, receipt_id |-> 0, tx_aborted |-> FALSE,
     tx_receipt |-> {}, tx_products |-> <<>>, fault_at |-> "",
     overlapped |-> FALSE, pre |-> NoSnapshot]

NoCall ==
    [doc |-> "", path |-> "", outcome |-> "", result |-> 0,
     raised |-> FALSE, at |-> "", fault_at |-> "", overlapped |-> FALSE,
     pre |-> NoSnapshot]

\* a call of insert_user_payment, api_assign_payment,
\* get_user_id_for_payment_name or insert_store by process p: op the
\* function, pc its position, tx the row it has inserted and not yet
\* committed, ret the returned id (0 for None), at the statement the call
\* returned from
IdleCall ==
    [op |-> "", pc |-> "idle", name |-> "", uid |-> 0, st |-> <<>>, tx |-> {},
     ret |-> 0, at |-> "",
     raised |-> FALSE, fault_at |-> "", pre |-> NoSnapshot]

RECURSIVE SeqsUpTo(_, _)
SeqsUpTo(S, n) ==
    IF n = 0 THEN {<<>>}
    ELSE LET shorter == SeqsUpTo(S, n - 1)
         IN shorter \cup {Append(s, e) : s \in {t \in shorter : Len(t) = n - 1}, e \in S}

ParseIdle ==
    /\ idx = 1
    /\ pending_product = <<>>
    /\ products = <<>>
    /\ parsed = FALSE

DbEmpty ==
    /\ stores = <<>>
    /\ receipts = {}
    /\ product_rows = <<>>
    /\ next_receipt_id = 1
    /\ ignored_payment_names = {"Bon"}
    /\ user_payments = {<<"Karta", 1>>}

RunIdle ==
    /\ files = [f \in AllFiles |-> {"to_check"}]
    /\ clock = 0
    /\ faults = 0
    /\ runs = 0
    /\ proc = [p \in Procs |-> IdleProc]
    /\ last = [p \in Procs |-> NoCall]
    /\ call = [p \in Procs |-> IdleCall]
    /\ shares = {}
    /\ manual_expenses = {}
    /\ settlements = {}
    /\ settlement_items = {}

\* ------------------------------------------------- parse_receipt, stepwise
ParseInit ==
    /\ body \in SeqsUpTo(EventPool, MaxEvents)
    /\ ParseIdle
    /\ DbEmpty
    /\ RunIdle

ParseState == [pending |-> pending_product, products |-> products]

SellLineStep ==
    /\ ~parsed /\ idx <= Len(body) /\ body[idx].tag = "sellLine"
    /\ LET st == sell_step(ParseState, body[idx])
       IN pending_product' = st.pending /\ products' = st.products
    /\ idx' = idx + 1
    /\ UNCHANGED <<body, parsed, dbVars, runVars, call, settleVars>>

DiscountLineStep ==
    /\ ~parsed /\ idx <= Len(body) /\ body[idx].tag = "discountLine"
    /\ LET st == discount_step(ParseState, body[idx])
       IN pending_product' = st.pending /\ products' = st.products
    /\ idx' = idx + 1
    /\ UNCHANGED <<body, parsed, dbVars, runVars, call, settleVars>>

OtherEventStep ==
    /\ ~parsed /\ idx <= Len(body)
    /\ body[idx].tag \notin {"sellLine", "discountLine"}
    /\ idx' = idx + 1
    /\ UNCHANGED <<body, pending_product, products, parsed, dbVars, runVars, call, settleVars>>

EndOfBody ==
    /\ ~parsed /\ idx > Len(body)
    /\ products' = end_of_body(ParseState)
    /\ pending_product' = <<>>
    /\ parsed' = TRUE
    /\ UNCHANGED <<body, idx, dbVars, runVars, call, settleVars>>

ParseNext == SellLineStep \/ DiscountLineStep \/ OtherEventStep \/ EndOfBody

ParseSpec == ParseInit /\ [][ParseNext]_vars

\* ------------------------------------------------------ database statements
Snapshot ==
    [stores |-> stores, receipts |-> receipts, product_rows |-> product_rows,
     user_payments |-> user_payments]

store_index(tbl, doc) ==
    {i \in 1..Len(tbl) : /\ tbl[i].store_name = doc.store_name
                         /\ tbl[i].store_address = doc.store_address
                         /\ tbl[i].postal_code = doc.postal_code}

\* the statement as it would be with ON CONFLICT ... DO NOTHING
upsert_store_keeps_city(tbl, doc) ==
    IF store_index(tbl, doc) # {} THEN tbl
    ELSE Append(tbl, [store_name |-> doc.store_name,
                      store_address |-> doc.store_address,
                      postal_code |-> doc.postal_code,
                      store_city |-> doc.store_city])

\* INSERT INTO stores ... ON CONFLICT (store_name, store_address,
\* postal_code) DO UPDATE SET store_city = EXCLUDED.store_city
upsert_store(tbl, doc) ==
    LET hit == store_index(tbl, doc)
    IN IF hit # {}
       THEN [tbl EXCEPT ![CHOOSE i \in hit : TRUE].store_city = doc.store_city]
       ELSE Append(tbl, [store_name |-> doc.store_name,
                         store_address |-> doc.store_address,
                         postal_code |-> doc.postal_code,
                         store_city |-> doc.store_city])

\* rows a statement of process p reads: committed rows and its own
visible_receipts(p) == receipts \cup proc[p].tx_receipt

\* the check as it would be if it looked only at this session's own rows
is_duplicate_receipt_own_rows(p, doc) ==
    \E r \in proc[p].tx_receipt :
        /\ r.date = doc.date
        /\ r.time = doc.time
        /\ r.final_price = final_price_of(doc)

is_duplicate_receipt(p, doc) ==
    \E r \in visible_receipts(p) :
        /\ r.date = doc.date
        /\ r.time = doc.time
        /\ r.final_price = final_price_of(doc)

\* the key as it would be without the store
same_key_ignores_store(r, store_id, receipt_number, doc) ==
    /\ r.receipt_number = receipt_number
    /\ r.date = doc.date
    /\ r.time = doc.time

same_key(r, store_id, receipt_number, doc) ==
    /\ r.store_id = store_id
    /\ r.receipt_number = receipt_number
    /\ r.date = doc.date
    /\ r.time = doc.time

\* receipts is UNIQUE on (store_id, receipt_number, date, time): an INSERT
\* of a key a committed row holds fails
receipts_unique_violation(p, doc) ==
    \E r \in receipts :
        same_key(r, proc[p].store_id, proc[p].receipt_number, doc)

\* ... and an INSERT of a key another open transaction has inserted waits
\* for that transaction to end
receipts_unique_wait(p, doc) ==
    \E o \in Procs \ {p} : \E r \in proc[o].tx_receipt :
        same_key(r, proc[p].store_id, proc[p].receipt_number, doc)

\* the row as it would be if the label were stored as the document writes it
receipt_row_raw_label(p, doc) ==
    [receipt_id |-> next_receipt_id,
     store_id |-> proc[p].store_id,
     receipt_number |-> proc[p].receipt_number,
     date |-> doc.date,
     time |-> doc.time,
     final_price |-> final_price_of(doc),
     payment_name |-> doc.payment,
     counted |-> FALSE,
     settled |-> FALSE,
     src |-> doc.id]

receipt_row(p, doc) ==
    [receipt_id |-> next_receipt_id,
     store_id |-> proc[p].store_id,
     receipt_number |-> proc[p].receipt_number,
     date |-> doc.date,
     time |-> doc.time,
     final_price |-> final_price_of(doc),
     payment_name |-> proc[p].payment_name,
     counted |-> FALSE,
     settled |-> FALSE,
     src |-> doc.id]

\* insert_products_bulk: one row per product; str(tax_type)[0] raises on ''
product_row(prod, receipt_id) ==
    [receipt_id |-> receipt_id,
     product_name |-> prod.product_name,
     quantity |-> quantize(prod.quantity, 1000),
     tax_type |-> prod.tax_type,
     unit_price_before |-> quantize(prod.unit_price_before, 100),
     total_price_before |-> quantize(prod.total_price_before, 100),
     unit_discount |-> quantize(prod.unit_discount, 100),
     total_discount |-> quantize(prod.total_discount, 100),
     unit_after_discount |-> quantize(prod.unit_after_discount, 100),
     total_after_discount |-> quantize(prod.total_after_discount, 100)]

products_data(prods, receipt_id) ==
    [i \in 1..Len(prods) |-> product_row(prods[i], receipt_id)]

bulk_raises(prods) == \E i \in 1..Len(prods) : prods[i].tax_type = ""

\* Path.replace: the move fails (and is only logged) when the source is gone
move_file_to_folder(fs, f, target) ==
    IF "to_check" \in fs[f]
    THEN [fs EXCEPT ![f] = (@ \ {"to_check"}) \cup {target}]
    ELSE fs

\* ------------------------------ process_receipt_file / process_receipt_data
\* the end of a call as it would be if the data path returned None, as
\* the file path does, instead of raising
EndCall_returns_none(p, outcome, result, target, fault) ==
    /\ last' = [last EXCEPT ![p] =
                    [doc |-> proc[p].doc, path |-> proc[p].path,
                     outcome |-> outcome, result |-> result,
                     raised |-> FALSE,
                     at |-> proc[p].pc,
                     fault_at |-> IF proc[p].fault_at = "" /\ fault
                                  THEN proc[p].pc ELSE proc[p].fault_at,
                     overlapped |-> proc[p].overlapped,
                     pre |-> proc[p].pre]]
    /\ files' = IF proc[p].path = "file" /\ target # ""
                THEN move_file_to_folder(files, proc[p].doc, target)
                ELSE files
    /\ proc' = [proc EXCEPT ![p] = IdleProc]

\* The call of process p ends: outcome is what the call reports, result the
\* returned receipt id (0 for None); the data path raises on every outcome
\* but success.  target is the folder the file path moves the file to; at is
\* the step the call ended in, fault_at the first step a database error was
\* raised in ("" when none was).
EndCall(p, outcome, result, target, fault) ==
    /\ last' = [last EXCEPT ![p] =
                    [doc |-> proc[p].doc, path |-> proc[p].path,
                     outcome |-> outcome, result |-> result,
                     raised |-> (proc[p].path = "data" /\ outcome # "success"),
                     at |-> proc[p].pc,
                     fault_at |-> IF proc[p].fault_at = "" /\ fault
                                  THEN proc[p].pc ELSE proc[p].fault_at,
                     overlapped |-> proc[p].overlapped,
                     pre |-> proc[p].pre]]
    /\ files' = IF proc[p].path = "file" /\ target # ""
                THEN move_file_to_folder(files, proc[p].doc, target)
                ELSE files
    /\ proc' = [proc EXCEPT ![p] = IdleProc]

Fault(fault) ==
    /\ fault => faults < MaxFaults
    /\ faults' = IF fault THEN faults + 1 ELSE faults

\* user_payments as a function of the payment name
mapped_names(tbl) == {m[1] : m \in tbl}

\* open + json.load, receipt number (time.time() read as now), payment
\* name, parse_receipt.  In the file path a document without a payment
\* name takes the name the operator types, and a name no user is mapped to
\* is assigned by the operator to a user and saved (insert_user_payment);
\* the data path takes the name of the document as it is.
BeginOf(p, ps, more, pool) ==
    \E f \in pool, path \in {"file", "data"}, now \in clock..MaxClock,
       typed \in TypedNames, uid \in UserIds :
        LET name == IF DocOf(f).payment # "" THEN strip(DocOf(f).payment) ELSE typed
        IN /\ proc[p].pc = "idle"
           /\ runs < MaxRuns /\ more
           /\ name # ""
           /\ ~reads_clock(DocOf(f)) => now = clock
           /\ DocOf(f).payment # "" => typed = ""
           /\ path = "data" => typed = ""
           /\ path = "file" => "to_check" \in files[f]
           /\ path = "file" => name \notin ignored_payment_names
           /\ IF path = "file" /\ name \notin mapped_names(user_payments)
              THEN user_payments' = user_payments \cup {<<name, uid>>}
              ELSE uid = 1 /\ UNCHANGED user_payments
           /\ runs' = runs + 1
           /\ clock' = now
           /\ proc' = [q \in Procs |->
                         IF q = p
                         THEN [IdleProc EXCEPT
                                 !.pc = "insert_store", !.doc = f, !.path = path,
                                 !.receipt_number = header_receipt_number(DocOf(f), now),
                                 !.payment_name = name,
                                 !.overlapped = (\E o \in ps \ {p} : proc[o].pc # "idle"),
                                 !.pre = Snapshot]
                         ELSE IF proc[q].pc # "idle"
                              THEN [proc[q] EXCEPT !.overlapped = TRUE]
                              ELSE proc[q]]
           /\ UNCHANGED <<parseVars, settleVars, call, stores, receipts, product_rows, next_receipt_id,
                          ignored_payment_names, files, faults, last>>


\* The call ends before anything is parsed or stored: outcome and the step
\* it ended in are recorded, the file is moved to target when one is given.
EndEarly(p, f, path, outcome, at, fault, target) ==
    /\ last' = [last EXCEPT ![p] =
                  [NoCall EXCEPT !.doc = f, !.path = path,
                                 !.outcome = outcome,
                                 !.raised = (path = "data"),
                                 !.at = at,
                                 !.fault_at = IF fault THEN at ELSE "",
                                 !.pre = Snapshot]]
    /\ files' = IF target # "" THEN move_file_to_folder(files, f, target) ELSE files
    /\ runs' = runs + 1

\* _process_payment_info: the payment name is in the ignore list
BeginIgnored(p, more) ==
    \E f \in FileNames :
        /\ proc[p].pc = "idle"
        /\ runs < MaxRuns /\ more
        /\ "to_check" \in files[f]
        /\ strip(DocOf(f).payment) \in ignored_payment_names
        /\ EndEarly(p, f, "file", "skip_ignored", "payment_info", FALSE, "")
        /\ UNCHANGED <<parseVars, settleVars, call, dbVars, clock, faults, proc>>

\* no payment name in the document: in the file path the operator presses
\* Enter at the prompt (return None, None); the data path raises ValueError
BeginNoPaymentName(p, more) ==
    \E f \in FileNames, path \in {"file", "data"} :
        /\ proc[p].pc = "idle"
        /\ runs < MaxRuns /\ more
        /\ DocOf(f).payment = ""
        /\ path = "file" => "to_check" \in files[f]
        /\ EndEarly(p, f, path, IF path = "file" THEN "skip_declined" ELSE "failure",
                    "payment_info", FALSE, "")
        /\ UNCHANGED <<parseVars, settleVars, call, dbVars, clock, faults, proc>>

\* _process_payment_info: is_payment_name_ignored raises on a database
\* error; the except clause returns (None, None) and the file is skipped
BeginPaymentError(p, more) ==
    \E f \in FileNames :
        /\ proc[p].pc = "idle"
        /\ runs < MaxRuns /\ more
        /\ "to_check" \in files[f]
        /\ DocOf(f).payment # ""
        /\ Fault(TRUE)
        /\ EndEarly(p, f, "file", "skip_payment_error", "payment_info", TRUE, "")
        /\ UNCHANGED <<parseVars, settleVars, call, dbVars, clock, proc>>

\* json.load raises JSONDecodeError: the file goes to the rejected folder
BeginMalformed(p, more) ==
    /\ proc[p].pc = "idle"
    /\ runs < MaxRuns /\ more
    /\ "to_check" \in files[Malformed]
    /\ EndEarly(p, Malformed, "file", "failure", "json_load", FALSE, "rejected")
    /\ UNCHANGED <<parseVars, settleVars, call, dbVars, clock, faults, proc>>

\* insert_store: its own session, committed before the transaction starts
InsertStore(p) ==
    \E fault \in BOOLEAN :
        /\ proc[p].pc = "insert_store"
        /\ Fault(fault)
        /\ IF fault
           THEN /\ EndCall(p, "failure", 0, "rejected", TRUE)
                /\ UNCHANGED stores
           ELSE /\ stores' = upsert_store(stores, HeaderOf(proc[p].doc))
                /\ proc' = [proc EXCEPT
                              ![p].pc = "duplicate_check",
                              ![p].store_id =
                                  CHOOSE i \in store_index(stores', HeaderOf(proc[p].doc)) : TRUE]
                /\ UNCHANGED <<files, last>>
        /\ UNCHANGED <<parseVars, settleVars, call, receipts, product_rows, next_receipt_id,
                       ignored_payment_names, user_payments, clock, runs>>

\* with transaction_scope(): is_duplicate_receipt(db, duplicate_data).
\* An error inside the check is swallowed (is_dup = False) and leaves the
\* transaction aborted.
DuplicateCheck(p) ==
    \E fault \in BOOLEAN :
        /\ proc[p].pc = "duplicate_check"
        /\ Fault(fault)
        /\ IF ~fault /\ is_duplicate_receipt(p, HeaderOf(proc[p].doc))
           THEN EndCall(p, "skip_duplicate", 0, "parsed", FALSE)
           ELSE /\ proc' = [proc EXCEPT ![p].pc = "insert_receipt",
                                        ![p].tx_aborted = fault,
                                        ![p].fault_at =
                                            IF fault THEN "duplicate_check" ELSE @]
                /\ UNCHANGED <<files, last>>
        /\ UNCHANGED <<parseVars, settleVars, call, dbVars, clock, runs>>

\* insert_receipt, SELECT on (store_id, receipt_number, date, time): a row
\* found or an exception both make insert_receipt return None
InsertReceiptLookup(p) ==
    \E fault \in BOOLEAN :
        /\ proc[p].pc = "insert_receipt"
        /\ Fault(fault)
        /\ LET doc == HeaderOf(proc[p].doc)
               failed == fault \/ proc[p].tx_aborted
               found == \E r \in visible_receipts(p) :
                           same_key(r, proc[p].store_id, proc[p].receipt_number, doc)
           IN IF failed \/ found
              THEN EndCall(p, "skip_exists_or_error", 0, "parsed", fault)
              ELSE /\ proc' = [proc EXCEPT ![p].pc = "insert_receipt_row"]
                   /\ UNCHANGED <<files, last>>
        /\ UNCHANGED <<parseVars, settleVars, call, dbVars, clock, runs>>

\* insert_receipt, INSERT ... RETURNING receipt_id.  The statement waits
\* while another transaction holds an uncommitted row with the same key.
InsertReceiptRow(p) ==
    \E fault \in BOOLEAN :
        /\ proc[p].pc = "insert_receipt_row"
        /\ Fault(fault)
        /\ LET doc == HeaderOf(proc[p].doc)
               violates == receipts_unique_violation(p, doc)
               prods == parse_products(doc.events)
           IN /\ ~receipts_unique_wait(p, doc)
              /\ IF fault \/ violates
                 THEN /\ EndCall(p, "skip_exists_or_error", 0, "parsed", fault)
                      /\ UNCHANGED next_receipt_id
                 ELSE /\ next_receipt_id' = next_receipt_id + 1
                      /\ proc' = [proc EXCEPT
                                    ![p].pc = IF prods # <<>> THEN "insert_products"
                                              ELSE "commit",
                                    ![p].receipt_id = next_receipt_id,
                                    ![p].tx_receipt = {receipt_row(p, doc)}]
                      /\ UNCHANGED <<files, last>>
        /\ UNCHANGED <<parseVars, settleVars, call, stores, receipts, product_rows,
                       ignored_payment_names, user_payments, clock, runs>>

\* insert_products_bulk(products, receipt_id, db=db); an exception leaves
\* the with block: rollback, then the rejected folder (or the raise)
InsertProductsBulk(p) ==
    \E fault \in BOOLEAN :
        /\ proc[p].pc = "insert_products"
        /\ Fault(fault)
        /\ LET prods == parse_products(HeaderOf(proc[p].doc).events)
           IN IF fault \/ bulk_raises(prods)
              THEN EndCall(p, "failure", 0, "rejected", fault)
              ELSE /\ proc' = [proc EXCEPT
                                 ![p].pc = "commit",
                                 ![p].tx_products = products_data(prods, proc[p].receipt_id)]
                   /\ UNCHANGED <<files, last>>
        /\ UNCHANGED <<parseVars, settleVars, call, dbVars, clock, runs>>

\* the commit as it would be if a failing commit left the receipt row behind
Commit_without_rollback(p) ==
    \E fault \in BOOLEAN :
        /\ proc[p].pc = "commit"
        /\ Fault(fault)
        /\ IF fault
           THEN /\ EndCall(p, "failure", 0, "rejected", TRUE)
                /\ receipts' = receipts \cup proc[p].tx_receipt
                /\ UNCHANGED product_rows
           ELSE /\ receipts' = receipts \cup proc[p].tx_receipt
                /\ product_rows' = product_rows \o proc[p].tx_products
                /\ proc' = [proc EXCEPT ![p].pc = "committed",
                                        ![p].tx_receipt = {},
                                        ![p].tx_products = <<>>]
                /\ UNCHANGED <<files, last>>
        /\ UNCHANGED <<parseVars, settleVars, call, stores, next_receipt_id,
                       ignored_payment_names, user_payments, clock, runs>>

\* transaction_scope: db.commit() after the block; a failing commit rolls back
Commit(p) ==
    \E fault \in BOOLEAN :
        /\ proc[p].pc = "commit"
        /\ Fault(fault)
        /\ IF fault
           THEN /\ EndCall(p, "failure", 0, "rejected", TRUE)
                /\ UNCHANGED <<receipts, product_rows>>
           ELSE /\ receipts' = receipts \cup proc[p].tx_receipt
                /\ product_rows' = product_rows \o proc[p].tx_products
                /\ proc' = [proc EXCEPT ![p].pc = "committed",
                                        ![p].tx_receipt = {},
                                        ![p].tx_products = <<>>]
                /\ UNCHANGED <<files, last>>
        /\ UNCHANGED <<parseVars, settleVars, call, stores, next_receipt_id,
                       ignored_payment_names, user_payments, clock, runs>>

\* _move_file_to_folder(file_path, PARSED_FOLDER); return receipt_id
ReturnReceiptId(p) ==
    /\ proc[p].pc = "committed"
    /\ EndCall(p, "success", proc[p].receipt_id, "parsed", FALSE)
    /\ UNCHANGED <<parseVars, settleVars, call, dbVars, clock, faults, runs>>

\* the same export is dropped into the to-check folder again
Resubmit ==
    \E f \in AllFiles :
        /\ "to_check" \notin files[f]
        /\ runs < MaxRuns
        /\ \A p \in Procs : proc[p].pc = "idle"
        /\ files' = [files EXCEPT ![f] = @ \cup {"to_check"}]
        /\ UNCHANGED <<parseVars, settleVars, call, dbVars, clock, faults, runs, proc, last>>

Step(p, ps, more) ==
    \/ BeginOf(p, ps, more, FileNames)
    \/ BeginIgnored(p, more)
    \/ BeginNoPaymentName(p, more)
    \/ BeginPaymentError(p, more)
    \/ BeginMalformed(p, more)
    \/ InsertStore(p)
    \/ DuplicateCheck(p)
    \/ InsertReceiptLookup(p)
    \/ InsertReceiptRow(p)
    \/ InsertProductsBulk(p)
    \/ Commit(p)
    \/ ReturnReceiptId(p)

Init ==
    /\ body = <<>>
    /\ ParseIdle
    /\ DbEmpty
    /\ RunIdle

\* one batch driver: files are processed one at a time
Next == Step(1, {1}, TRUE) \/ Resubmit

Spec == Init /\ [][Next]_vars

\* ingestions of the documents whose keys meet, by two processes
KeyStep(p) ==
    \/ BeginOf(p, Procs, TRUE, {d.id : d \in KeyDocs})
    \/ InsertStore(p)
    \/ DuplicateCheck(p)
    \/ InsertReceiptLookup(p)
    \/ InsertReceiptRow(p)
    \/ InsertProductsBulk(p)
    \/ Commit(p)
    \/ ReturnReceiptId(p)

KeySpec == Init /\ [][(\E p \in Procs : KeyStep(p)) \/ Resubmit]_vars

\* two ingesting processes on the same database, one call each
ConcNext == (\E p \in Procs : Step(p, Procs, last[p] = NoCall)) \/ Resubmit

ConcSpec == Init /\ [][ConcNext]_vars

\* ------------------------------------- payment mappings and stores, by call
PayNames == {"Karta", "Gotowka", "Bon"}

BiedronkaMoved == Store("BIEDRONKA", "UL. PIATKOWSKA 78C", "60-649", "LUBON")
StorePool == {Biedronka, BiedronkaMoved, Lidl}

\* SELECT user_id FROM user_payments WHERE payment_name = :payment_name,
\* fetchone(): 0 for no row
existing_user_id(tbl, name) ==
    IF name \in mapped_names(tbl)
    THEN CHOOSE u \in UserIds : <<name, u>> \in tbl
    ELSE 0

\* user_payments.payment_name is UNIQUE: an INSERT of a name a committed row
\* holds fails with "duplicate key value violates unique constraint"
user_payments_unique_violation(name) == name \in mapped_names(user_payments)

\* ... and an INSERT of a name another open transaction has inserted waits
\* for that transaction to end
user_payments_unique_wait(p, name) ==
    \E o \in Procs \ {p} : name \in mapped_names(call[o].tx)

\* stores is UNIQUE on (store_name, store_address, postal_code)
stores_unique_violation(st) == store_index(stores, st) # {}

StartCall(p, op, pc, name, uid, st, tx) ==
    /\ call[p].pc \in {"idle", "done"}
    /\ runs < MaxRuns
    /\ runs' = runs + 1
    /\ call' = [call EXCEPT ![p] =
                  [IdleCall EXCEPT !.op = op, !.pc = pc, !.name = name,
                                   !.uid = uid, !.st = st, !.tx = tx,
                                   !.pre = Snapshot]]

ReturnCall(p, ret, raised, fault) ==
    call' = [call EXCEPT ![p].pc = "done", ![p].ret = ret, ![p].raised = raised,
                         ![p].tx = {}, ![p].at = call[p].pc,
                         ![p].fault_at = IF fault THEN call[p].pc ELSE @]

\* the handler as it would be if every error were re-raised
iup_on_error_reraises(duplicate_key, existing) == [raised |-> TRUE, ret |-> 0]

\* insert_user_payment, except Exception: rollback; on a duplicate key the
\* existing mapping is read again and returned, any other error is re-raised
iup_on_error(duplicate_key, existing) ==
    IF duplicate_key THEN [raised |-> FALSE, ret |-> existing]
    ELSE [raised |-> TRUE, ret |-> 0]

InsertUserPaymentCall(p) ==
    \E name \in PayNames, uid \in UserIds :
        /\ StartCall(p, "insert_user_payment", "iup_select", name, uid, <<>>, {})
        /\ UNCHANGED <<parseVars, settleVars, dbVars, files, clock, faults, proc, last>>

\* insert_user_payment: the existence check
IupSelect(p) ==
    \E fault \in BOOLEAN :
        /\ call[p].pc = "iup_select"
        /\ Fault(fault)
        /\ LET existing == existing_user_id(user_payments, call[p].name)
               h == iup_on_error(FALSE, 0)
           IN IF fault THEN ReturnCall(p, h.ret, h.raised, TRUE)
              ELSE IF existing # 0 THEN ReturnCall(p, existing, FALSE, FALSE)
              ELSE call' = [call EXCEPT ![p].pc = "iup_insert"]
        /\ UNCHANGED <<parseVars, settleVars, dbVars, files, clock, runs, proc, last>>

\* insert_user_payment: INSERT INTO user_payments ... RETURNING user_id
IupInsert(p) ==
    \E fault \in BOOLEAN :
        /\ call[p].pc = "iup_insert"
        /\ ~user_payments_unique_wait(p, call[p].name)
        /\ Fault(fault)
        /\ LET duplicate_key == ~fault /\ user_payments_unique_violation(call[p].name)
               h == iup_on_error(duplicate_key,
                                 existing_user_id(user_payments, call[p].name))
           IN IF fault \/ duplicate_key
              THEN ReturnCall(p, h.ret, h.raised, fault)
              ELSE call' = [call EXCEPT ![p].pc = "iup_commit",
                                        ![p].tx = {<<call[p].name, call[p].uid>>}]
        /\ UNCHANGED <<parseVars, settleVars, dbVars, files, clock, runs, proc, last>>

\* insert_user_payment: db.commit(); return user_id
IupCommit(p) ==
    \E fault \in BOOLEAN :
        /\ call[p].pc = "iup_commit"
        /\ Fault(fault)
        /\ LET h == iup_on_error(FALSE, 0)
           IN IF fault
              THEN /\ ReturnCall(p, h.ret, h.raised, TRUE)
                   /\ UNCHANGED user_payments
              ELSE /\ user_payments' = user_payments \cup call[p].tx
                   /\ ReturnCall(p, call[p].uid, FALSE, FALSE)
        /\ UNCHANGED <<parseVars, settleVars, stores, receipts, product_rows, next_receipt_id,
                       ignored_payment_names, files, clock, runs, proc, last>>

\* api_assign_payment: INSERT ... ON CONFLICT (payment_name) DO NOTHING
ApiAssignInsert(p) ==
    \E name \in PayNames, uid \in UserIds :
        /\ ~user_payments_unique_wait(p, name)
        /\ StartCall(p, "api_assign_payment", "api_commit", name, uid, <<>>,
                     IF name \in mapped_names(user_payments) THEN {}
                     ELSE {<<name, uid>>})
        /\ UNCHANGED <<parseVars, settleVars, dbVars, files, clock, faults, proc, last>>

\* api_assign_payment: db.commit(); an error is rolled back and answered
\* with status 500
ApiAssignCommit(p) ==
    \E fault \in BOOLEAN :
        /\ call[p].pc = "api_commit"
        /\ Fault(fault)
        /\ user_payments' = IF fault THEN user_payments
                            ELSE user_payments \cup call[p].tx
        /\ ReturnCall(p, 0, FALSE, fault)
        /\ UNCHANGED <<parseVars, settleVars, stores, receipts, product_rows, next_receipt_id,
                       ignored_payment_names, files, clock, runs, proc, last>>

\* get_user_id_for_payment_name: None for an empty name, for an ignored
\* name and for a name without mapping; a database error in the ignore
\* check or in the lookup is caught by the outer except, which returns None
get_user_id_for_payment_name(name, fault) ==
    IF name = "" THEN [raised |-> FALSE, ret |-> 0]
    ELSE IF fault THEN [raised |-> FALSE, ret |-> 0]
    ELSE IF name \in ignored_payment_names THEN [raised |-> FALSE, ret |-> 0]
    ELSE [raised |-> FALSE, ret |-> existing_user_id(user_payments, name)]

GetUserIdCall(p) ==
    \E name \in PayNames \cup {""}, fault \in BOOLEAN :
        /\ name = "" => ~fault
        /\ Fault(fault)
        /\ call[p].pc \in {"idle", "done"}
        /\ runs < MaxRuns
        /\ runs' = runs + 1
        /\ LET r == get_user_id_for_payment_name(name, fault)
           IN call' = [call EXCEPT ![p] =
                         [IdleCall EXCEPT !.op = "get_user_id_for_payment_name",
                                          !.pc = "done", !.name = name,
                                          !.ret = r.ret, !.raised = r.raised,
                                          !.fault_at = IF fault THEN "lookup" ELSE "",
                                          !.pre = Snapshot]]
        /\ UNCHANGED <<parseVars, settleVars, dbVars, files, clock, proc, last>>

\* insert_store(store): the upsert and its commit; an error is rolled back
\* and re-raised
InsertStoreCall(p) ==
    \E st \in StorePool, fault \in BOOLEAN :
        /\ Fault(fault)
        /\ call[p].pc \in {"idle", "done"}
        /\ runs < MaxRuns
        /\ runs' = runs + 1
        /\ stores' = IF fault THEN stores ELSE upsert_store(stores, st)
        /\ call' = [call EXCEPT ![p] =
                      [IdleCall EXCEPT !.op = "insert_store", !.pc = "done",
                                       !.st = st,
                                       !.ret = IF fault THEN 0
                                               ELSE CHOOSE i \in store_index(stores', st) : TRUE,
                                       !.raised = fault,
                                       !.fault_at = IF fault THEN "insert_store" ELSE "",
                                       !.pre = Snapshot]]
        /\ UNCHANGED <<parseVars, settleVars, receipts, product_rows, next_receipt_id,
                       ignored_payment_names, user_payments, files, clock, proc, last>>

\* a plain INSERT INTO stores, as test_duplicate_store issues it
RawInsertStore(p) ==
    \E st \in StorePool :
        /\ call[p].pc \in {"idle", "done"}
        /\ runs < MaxRuns
        /\ runs' = runs + 1
        /\ stores' = IF stores_unique_violation(st) THEN stores
                     ELSE Append(stores, st)
        /\ call' = [call EXCEPT ![p] =
                      [IdleCall EXCEPT !.op = "raw_insert_store", !.pc = "done",
                                       !.st = st,
                                       !.raised = stores_unique_violation(st),
                                       !.pre = Snapshot]]
        /\ UNCHANGED <<parseVars, settleVars, receipts, product_rows, next_receipt_id,
                       ignored_payment_names, user_payments, files, clock, faults,
                       proc, last>>

TableStep(p) ==
    \/ InsertUserPaymentCall(p)
    \/ IupSelect(p)
    \/ IupInsert(p)
    \/ IupCommit(p)
    \/ ApiAssignInsert(p)
    \/ ApiAssignCommit(p)
    \/ GetUserIdCall(p)
    \/ InsertStoreCall(p)
    \/ RawInsertStore(p)

\* calls on user_payments and stores by two sessions
TableSpec == Init /\ [][\E p \in Procs : TableStep(p)]_vars

\* ---------------------------------------------- parse_receipt: store name
\* The sources of the store name in a document: the first line of the
\* headerText block up to the first quote and the name of a store
\* sub-object ("" when the document has none), with the sources of the
\* receipt number.
HeaderSources ==
    [headerText : {"", "BIEDRONKA 7565"},
     store : {"", "LIDL"},
     billNumber : {"", "B7", "LIDL_77", "_77"},
     docNumber : {""},
     txn : {""},
     fiscal : {NoFiscal, Fiscal("F9", "2024-07-08", "09:00:00")}]

\* re.sub(r'\s*\d+$', '', store_name).strip()
strip_store_number(name) == IF name = "BIEDRONKA 7565" THEN "BIEDRONKA" ELSE name

\* receiptNumber.split('_')[0] if '_' in receiptNumber else receiptNumber
before_underscore(receiptNumber) ==
    IF receiptNumber = "LIDL_77" THEN "LIDL"
    ELSE IF receiptNumber = "_77" THEN ""
    ELSE receiptNumber

\* f"Store_{billNumber}"
store_of_bill(billNumber) == IF billNumber = "F9" THEN "Store_F9" ELSE "Store_"

\* parse_receipt, store name: headerText, then the store sub-object, then
\* the receiptNumber key when it holds a string (NoneVal: it does not),
\* else 'Store_' and the fiscal billNumber, at last 'Unknown Store'
parse_store_name(src, receiptNumber) ==
    LET found == IF src.headerText # "" THEN src.headerText ELSE src.store
        cleaned == strip_store_number(found)
        other == IF cleaned # "" THEN cleaned
                 ELSE IF receiptNumber # NoneVal THEN before_underscore(receiptNumber)
                 ELSE IF src.fiscal.present THEN store_of_bill(src.fiscal.billNumber)
                 ELSE ""
    IN IF other # "" THEN other ELSE "Unknown Store"

\* process_receipt_file / process_receipt_data up to the parsed header:
\* receipt_data['receiptNumber'] = receipt_number, then parse_receipt
ParseHeaderCall(p) ==
    \E src \in HeaderSources, now \in clock..MaxClock, path \in {"file", "data"} :
        /\ call[p].pc \in {"idle", "done"}
        /\ runs < MaxRuns
        /\ runs' = runs + 1
        /\ ~reads_clock(src) => now = clock
        /\ clock' = now
        /\ call' = [call EXCEPT ![p] =
                      [IdleCall EXCEPT
                         !.op = "parse_receipt", !.pc = "done", !.at = path,
                         !.st = src,
                         !.name = parse_store_name(src, resolve_receipt_number(src, now)),
                         !.pre = Snapshot]]
        /\ UNCHANGED <<parseVars, settleVars, dbVars, files, faults, proc, last>>

HeaderSpec == Init /\ [][\E p \in Procs : ParseHeaderCall(p)]_vars

\* ------------------------------------------------------------------ ledger
\* shares, counting, manual expenses and settlements over receipts that
\* have been ingested: k.json (receipt 1, one Mleko) and b.json (receipt 2,
\* one Chleb), both paid with "Karta", which user 1 holds
LedgerDocs == <<DocOtherStore, DocReexport>>

LedgerReceipt(i) ==
    LET doc == extract_fiscal_data(LedgerDocs[i])
    IN [receipt_id |-> i,
        store_id |-> 1,
        receipt_number |-> header_receipt_number(doc, 0),
        date |-> doc.date,
        time |-> doc.time,
        final_price |-> final_price_of(doc),
        payment_name |-> strip(doc.payment),
        counted |-> FALSE,
        settled |-> FALSE,
        src |-> doc.id]

LedgerInit ==
    /\ body = <<>>
    /\ ParseIdle
    /\ stores = upsert_store(upsert_store(<<>>, LedgerDocs[1]), LedgerDocs[2])
    /\ receipts = {LedgerReceipt(i) : i \in 1..Len(LedgerDocs)}
    /\ product_rows = products_data(parse_products(LedgerDocs[1].events), 1)
                          \o products_data(parse_products(LedgerDocs[2].events), 2)
    /\ next_receipt_id = Len(LedgerDocs) + 1
    /\ ignored_payment_names = {"Bon"}
    /\ user_payments = {<<"Karta", 1>>}
    /\ RunIdle

\* a row of shares is <<product_id, user_id, share>>, the share in percent
\* the statement as it would be without its ON CONFLICT clause on a table
\* without the unique constraint
upsert_share_plain_insert(tbl, product_id, user_id, share) ==
    tbl \cup {<<product_id, user_id, share>>}

\* INSERT INTO shares ... ON CONFLICT (product_id, user_id) DO UPDATE SET
\* share = EXCLUDED.share
upsert_share(tbl, product_id, user_id, share) ==
    {s \in tbl : ~(s[1] = product_id /\ s[2] = user_id)}
        \cup {<<product_id, user_id, share>>}

\* shares.product_id and shares.user_id reference products and users
shares_fk_violation(product_id, user_id) ==
    \/ product_id \notin 1..Len(product_rows)
    \/ user_id \notin UserIds

\* one element of the request: a product and its list of <<user_id, share>>
ShareEntry(product_id, user_shares) ==
    [product_id |-> product_id, shares |-> user_shares]

\* the requests of the pool: accepted ones, and one for each way of being
\* refused (a user that does not exist, a share out of range, a sum that
\* is not 100, an empty list, a product that does not exist)
ShareRequests ==
    {<<ShareEntry(1, <<<<1, 50>>, <<2, 50>>>>), ShareEntry(2, <<<<1, 50>>, <<2, 50>>>>)>>,
     <<ShareEntry(1, <<<<1, 100>>, <<2, 0>>>>)>>,
     <<ShareEntry(1, <<<<1, 50>>, <<2, 50>>>>), ShareEntry(2, <<<<1, 50>>, <<3, 50>>>>)>>,
     <<ShareEntry(1, <<<<1, 50>>, <<2, 50>>>>), ShareEntry(2, <<<<1, 150>>, <<2, -50>>>>)>>,
     <<ShareEntry(1, <<<<1, 50>>, <<2, 50>>>>), ShareEntry(2, <<<<1, 50>>, <<2, 40>>>>)>>,
     <<ShareEntry(1, <<<<1, 50>>, <<2, 50>>>>), ShareEntry(9, <<<<1, 50>>, <<2, 50>>>>)>>,
     <<>>}

RECURSIVE sum_shares(_, _)
sum_shares(user_shares, i) ==
    IF i > Len(user_shares) THEN 0
    ELSE user_shares[i][2] + sum_shares(user_shares, i + 1)

\* the validation loop as it would be if it looked at the first product only
request_error_first_product(request) ==
    IF request = <<>> THEN TRUE
    ELSE \/ request[1].shares = <<>>
         \/ \E j \in 1..Len(request[1].shares) :
                \/ request[1].shares[j][1] \notin UserIds
                \/ request[1].shares[j][2] < 0
                \/ request[1].shares[j][2] > 100
         \/ Abs(sum_shares(request[1].shares, 1) - 100) * 100 > 1

\* save_receipt_shares: 400 on an empty list, a product without shares, a
\* user that is not in users, a share outside 0..100, or a product whose
\* shares differ from 100 by more than 0.01; every product is looked at
\* before anything is written
request_error(request) ==
    \/ request = <<>>
    \/ \E i \in 1..Len(request) :
           \/ request[i].shares = <<>>
           \/ \E j \in 1..Len(request[i].shares) :
                  \/ request[i].shares[j][1] \notin UserIds
                  \/ request[i].shares[j][2] < 0
                  \/ request[i].shares[j][2] > 100
           \/ Abs(sum_shares(request[i].shares, 1) - 100) * 100 > 1

\* the triples a request writes, in the order of the request
RECURSIVE request_rows(_, _)
request_rows(request, i) ==
    IF i > Len(request) THEN <<>>
    ELSE [j \in 1..Len(request[i].shares) |->
             <<request[i].product_id, request[i].shares[j][1], request[i].shares[j][2]>>]
         \o request_rows(request, i + 1)

\* the upserts of a list of triples, one after the other
RECURSIVE upsert_rows(_, _, _)
upsert_rows(tbl, rows, i) ==
    IF i > Len(rows) THEN tbl
    ELSE upsert_rows(upsert_share(tbl, rows[i][1], rows[i][2], rows[i][3]), rows, i + 1)

\* UPDATE receipts SET counted = TRUE WHERE receipt_id = :rid
set_counted(tbl, receipt_id) ==
    {IF r.receipt_id = receipt_id THEN [r EXCEPT !.counted = TRUE] ELSE r : r \in tbl}

\* one operation of the ledger by the operator or the web client: what it
\* was, what it was given and what it answered
LedgerCall(op, uid, request, ret, raised, fault) ==
    /\ runs < MaxRuns
    /\ runs' = runs + 1
    /\ Fault(fault)
    /\ call' = [call EXCEPT ![1] =
                  [IdleCall EXCEPT !.op = op, !.pc = "done", !.uid = uid,
                                   !.st = request, !.ret = ret, !.raised = raised,
                                   !.fault_at = IF fault THEN op ELSE ""]]
    /\ UNCHANGED <<parseVars, stores, next_receipt_id, ignored_payment_names,
                   user_payments, files, clock, proc, last>>

\* POST /api/count-receipt/{receipt_id} with a body that has no
\* static_shares: validation, then the upserts, the counted flag and one
\* commit; an exception anywhere rolls everything back (500)
SaveReceiptShares ==
    \E receipt_id \in 1..Len(LedgerDocs), request \in ShareRequests, fault \in BOOLEAN :
        LET rows == request_rows(request, 1)
            status == IF fault THEN 500
                      ELSE IF request_error(request) THEN 400
                      ELSE IF \E i \in 1..Len(rows) :
                                  shares_fk_violation(rows[i][1], rows[i][2]) THEN 500
                      ELSE 200
        IN /\ LedgerCall("save_receipt_shares", receipt_id, request, status, FALSE, fault)
           /\ IF status = 200
              THEN /\ shares' = upsert_rows(shares, rows, 1)
                   /\ receipts' = set_counted(receipts, receipt_id)
              ELSE UNCHANGED <<shares, receipts>>
           /\ UNCHANGED <<product_rows, manual_expenses, settlements, settlement_items>>

\* insert_share(product_id, user_id, share): one upsert and its commit; an
\* exception is logged and raised again
InsertShare ==
    \E product_id \in {1, 2, 9}, user_id \in UserIds, share \in {30, 60},
       fault \in BOOLEAN :
        LET raised == fault \/ shares_fk_violation(product_id, user_id)
        IN /\ LedgerCall("insert_share", user_id, <<<<product_id, user_id, share>>>>,
                         0, raised, fault)
           /\ shares' = IF raised THEN shares
                        ELSE upsert_share(shares, product_id, user_id, share)
           /\ UNCHANGED <<receipts, product_rows, manual_expenses, settlements,
                          settlement_items>>

\* insert_shares_bulk(shares_data): the upserts in the order of the list,
\* one commit; an exception leaves nothing behind and is raised again
InsertSharesBulk ==
    \E rows \in
           {<<<<1, 1, 70>>, <<1, 2, 30>>, <<2, 1, 70>>>>,
            <<<<2, 2, 30>>, <<2, 2, 10>>>>,
            <<<<1, 1, 70>>, <<9, 1, 30>>>>},
       fault \in BOOLEAN :
        LET raised == fault \/ \E i \in 1..Len(rows) :
                                   shares_fk_violation(rows[i][1], rows[i][2])
        IN /\ LedgerCall("insert_shares_bulk", 0, rows, 0, raised, fault)
           /\ shares' = IF raised THEN shares ELSE upsert_rows(shares, rows, 1)
           /\ UNCHANGED <<receipts, product_rows, manual_expenses, settlements,
                          settlement_items>>

\* SELECT ... FROM receipts WHERE counted = FALSE ORDER BY date, receipt_id
\* LIMIT 1 (the receipts of the ledger carry one date)
next_uncounted(tbl) ==
    LET open == {r.receipt_id : r \in {x \in tbl : ~x.counted}}
    IN IF open = {} THEN 0
       ELSE CHOOSE i \in open : \A j \in open : i <= j

products_of_receipt(receipt_id) ==
    {i \in 1..Len(product_rows) : product_rows[i].receipt_id = receipt_id}

\* the two upserts per product of the counting screen
RECURSIVE count_rows(_, _)
count_rows(product_ids, share1) ==
    IF product_ids = {} THEN <<>>
    ELSE LET i == CHOOSE x \in product_ids : \A y \in product_ids : x <= y
         IN <<<<i, 1, share1>>, <<i, 2, 100 - share1>>>>
                \o count_rows(product_ids \ {i}, share1)

\* what the operator answers on the counting screen: the share of user 1
\* and Enter (save), or n (skip)
\* handle_count_receipts, one receipt: the oldest uncounted receipt, the
\* share of user 1 for its products (user 2 gets the rest), then Enter
\* saves the shares and the counted flag in one commit and n sets the
\* counted flag alone; an exception is logged and nothing is committed
CountReceiptCli ==
    \E answer \in {<<50, "">>, <<100, "">>, <<50, "n">>}, fault \in BOOLEAN :
        LET receipt_id == next_uncounted(receipts)
            rows == IF answer[2] = "" THEN count_rows(products_of_receipt(receipt_id), answer[1])
                    ELSE <<>>
        IN /\ receipt_id # 0
           /\ LedgerCall("handle_count_receipts", receipt_id, rows,
                         IF fault THEN 0 ELSE receipt_id, FALSE, fault)
           /\ IF fault
              THEN UNCHANGED <<shares, receipts>>
              ELSE /\ shares' = upsert_rows(shares, rows, 1)
                   /\ receipts' = set_counted(receipts, receipt_id)
           /\ UNCHANGED <<product_rows, manual_expenses, settlements, settlement_items>>

\* the virtual product of a manual expense
virtual_product(manual_expense_id, total_cost) ==
    [receipt_id |-> 0,
     manual_expense_id |-> manual_expense_id,
     product_name |-> "Manual Expense",
     quantity |-> Dec(1, 1),
     tax_type |-> "M",
     unit_price_before |-> total_cost,
     total_price_before |-> total_cost,
     unit_discount |-> Dec(0, 1),
     total_discount |-> Dec(0, 1),
     unit_after_discount |-> total_cost,
     total_after_discount |-> total_cost]

\* insert_manual_expense(db, expense): the expense (settled FALSE, counted
\* left to the default of the column, TRUE), its virtual product, the share of
\* the payer and the share of the other of users 1 and 2, one commit; an
\* exception rolls back and is raised again
InsertManualExpense ==
    \E payer \in UserIds, fault \in BOOLEAN :
        LET manual_expense_id == Cardinality(manual_expenses) + 1
            total_cost == quantize(Dec(10, 1), 100)
            product_id == Len(product_rows) + 1
            other == CHOOSE u \in {1, 2} : u # payer
        IN /\ LedgerCall("insert_manual_expense", payer, <<>>,
                         IF fault THEN 0 ELSE manual_expense_id, fault, fault)
           /\ IF fault
              THEN UNCHANGED <<manual_expenses, product_rows, shares>>
              ELSE /\ manual_expenses' = manual_expenses \cup
                        {[manual_expense_id |-> manual_expense_id,
                          total_cost |-> total_cost,
                          payer_user_id |-> payer,
                          counted |-> TRUE,
                          settled |-> FALSE]}
                   /\ product_rows' = Append(product_rows,
                                             virtual_product(manual_expense_id, total_cost))
                   /\ shares' = shares \cup {<<product_id, payer, 50>>,
                                             <<product_id, other, 50>>}
           /\ UNCHANGED <<receipts, settlements, settlement_items>>

\* a stored amount in hundredths
cents(r) == (r.n * 100) \div r.d

RECURSIVE SumOver(_, _)
SumOver(S, f) ==
    IF S = {} THEN 0
    ELSE LET x == CHOOSE y \in S : TRUE
         IN f[x] + SumOver(S \ {x}, f)

\* the finalization as it would be if it took every unsettled row
to_settle_any(tbl) == {r \in tbl : ~r.settled}

\* WHERE counted = TRUE AND settled = FALSE
to_settle(tbl) == {r \in tbl : r.counted /\ ~r.settled}

\* handle_show_settlement_summary: what user u paid, times 100 (the final
\* price of each counted unsettled receipt that has a product and whose
\* payment name is mapped to u, and the counted unsettled manual expenses
\* u paid)
user_paid(u) ==
    100 * (SumOver({r \in to_settle(receipts) :
                        /\ products_of_receipt(r.receipt_id) # {}
                        /\ <<r.payment_name, u>> \in user_payments},
                   [r \in receipts |-> cents(r.final_price)])
           + SumOver({m \in to_settle(manual_expenses) : m.payer_user_id = u},
                     [m \in manual_expenses |-> cents(m.total_cost)]))

\* what falls to user u, times 100: total_after_discount * share / 100
\* over the products of counted unsettled receipts and the virtual products
\* of counted unsettled manual expenses
user_totals(u) ==
    LET summary_products ==
            {i \in 1..Len(product_rows) :
                \/ \E r \in to_settle(receipts) : product_rows[i].receipt_id = r.receipt_id
                \/ /\ product_rows[i].receipt_id = 0
                   /\ \E m \in to_settle(manual_expenses) :
                          product_rows[i].manual_expense_id = m.manual_expense_id}
    IN SumOver({s \in shares : s[1] \in summary_products /\ s[2] = u},
               [s \in shares |-> cents(product_rows[s[1]].total_after_discount) * s[3]])

user_net(u) == user_paid(u) - user_totals(u)

\* the pair the summary proposes: the user with the highest net receives
\* from the user with the lowest, when the first is above zero and the
\* second below; otherwise "All expenses are already balanced."
settlement_pairs ==
    LET hi == CHOOSE u \in UserIds : \A v \in UserIds :
                  user_net(u) > user_net(v) \/ (user_net(u) = user_net(v) /\ u <= v)
        lo == CHOOSE u \in UserIds \ {hi} : \A v \in UserIds \ {hi} :
                  user_net(u) <= user_net(v)
    IN IF user_net(hi) > 0 /\ user_net(lo) < 0
       THEN {[payer_user_id |-> hi, debtor_user_id |-> lo,
              amount |-> IF Abs(user_net(hi)) < Abs(user_net(lo))
                         THEN Abs(user_net(hi)) ELSE Abs(user_net(lo))]}
       ELSE {}

set_settled(tbl, rows) ==
    {IF r \in rows THEN [r EXCEPT !.settled = TRUE] ELSE r : r \in tbl}

\* a row of settlement_items is <<settlement_id, kind, id>>
items_of(settlement_id, rs, ms) ==
    {<<settlement_id, "receipt", r.receipt_id>> : r \in rs}
        \cup {<<settlement_id, "manual_expense", m.manual_expense_id>> : m \in ms}

\* handle_show_settlement_summary answered with y: the counted unsettled
\* receipts and manual expenses are set settled, then for each proposed
\* pair a settlements row and one settlement_items row per settled id,
\* one commit; an exception rolls back
FinalizeSettlementCli ==
    \E fault \in BOOLEAN :
        LET rs == to_settle(receipts)
            ms == to_settle(manual_expenses)
            settlement_id == Cardinality(settlements) + 1
        IN /\ LedgerCall("handle_show_settlement_summary", 0, <<>>,
                         IF fault THEN 0 ELSE Cardinality(settlement_pairs), FALSE, fault)
           /\ IF fault
              THEN UNCHANGED <<receipts, manual_expenses, settlements, settlement_items>>
              ELSE /\ receipts' = set_settled(receipts, rs)
                   /\ manual_expenses' = set_settled(manual_expenses, ms)
                   /\ settlements' = settlements \cup
                        {[settlement_id |-> settlement_id,
                          payer_user_id |-> pair.payer_user_id,
                          debtor_user_id |-> pair.debtor_user_id,
                          amount |-> pair.amount] : pair \in settlement_pairs}
                   /\ settlement_items' = settlement_items \cup
                        UNION {items_of(settlement_id, rs, ms) : pair \in settlement_pairs}
           /\ UNCHANGED <<shares, product_rows>>

\* POST /api/finalize-settlement: one settlements row for the pair and the
\* amount of the request, then every counted unsettled receipt and manual
\* expense is linked to it and set settled, one commit; an exception rolls
\* back (500)
FinalizeSettlementWeb ==
    \E payer \in UserIds, debtor \in UserIds, fault \in BOOLEAN :
        LET rs == to_settle(receipts)
            ms == to_settle(manual_expenses)
            settlement_id == Cardinality(settlements) + 1
        IN /\ payer # debtor
           /\ LedgerCall("finalize_settlement", payer, <<>>,
                         IF fault THEN 500 ELSE 200, FALSE, fault)
           /\ IF fault
              THEN UNCHANGED <<receipts, manual_expenses, settlements, settlement_items>>
              ELSE /\ receipts' = set_settled(receipts, rs)
                   /\ manual_expenses' = set_settled(manual_expenses, ms)
                   /\ settlements' = settlements \cup
                        {[settlement_id |-> settlement_id, payer_user_id |-> payer,
                          debtor_user_id |-> debtor, amount |-> 100]}
                   /\ settlement_items' = settlement_items \cup items_of(settlement_id, rs, ms)
           /\ UNCHANGED <<shares, product_rows>>

\* settle_all_expenses: both tables, counted unsettled rows set settled,
\* one commit; an exception rolls back and False is returned
SettleAllExpenses ==
    \E fault \in BOOLEAN :
        /\ LedgerCall("settle_all_expenses", 0, <<>>, IF fault THEN 0 ELSE 1, FALSE, fault)
        /\ IF fault
           THEN UNCHANGED <<receipts, manual_expenses>>
           ELSE /\ receipts' = set_settled(receipts, to_settle(receipts))
                /\ manual_expenses' = set_settled(manual_expenses, to_settle(manual_expenses))
        /\ UNCHANGED <<shares, product_rows, settlements, settlement_items>>

LedgerSpec ==
    LedgerInit /\ [][\/ SaveReceiptShares
                     \/ InsertShare
                     \/ InsertSharesBulk
                     \/ CountReceiptCli
                     \/ InsertManualExpense
                     \/ FinalizeSettlementCli
                     \/ FinalizeSettlementWeb
                     \/ SettleAllExpenses]_vars

\* ================================================================== claims
Finished(p) == proc[p].pc = "idle" /\ last[p].doc # ""

RowsOf(f) == {r \in receipts : r.src = f}

\* C1: when a document that already has a committed receipt is ingested
\* again, the second call ends with the duplicate outcome (None from the file
\* path, a raise from the data path), leaves receipts and products as they
\* were, adds no stores row, and the document still has exactly one receipt.
\* A call that stops at the payment step (ignored name, no name given, or
\* the data path's ValueError for a missing name) ends the same way.
C1_SecondIngestionIsSkipped ==
    LET c == last[1]
    IN (Finished(1) /\ (\E r \in c.pre.receipts : r.src = c.doc)) =>
          /\ c.fault_at = "" =>
                 \/ c.outcome \in {"skip_duplicate", "skip_ignored", "skip_declined"}
                 \/ c.path = "data" /\ c.at = "payment_info" /\ c.raised
          /\ c.outcome # "success"
          /\ c.result = 0
          /\ c.path = "data" => c.raised
          /\ c.path = "file" => ~c.raised
          /\ receipts = c.pre.receipts
          /\ product_rows = c.pre.product_rows
          /\ Len(stores) = Len(c.pre.stores)
          /\ Cardinality(RowsOf(c.doc)) = 1

C1_Witness ==
    /\ Finished(1)
    /\ last[1].outcome = "skip_duplicate"
    /\ last[1].doc = "c.json"
    /\ \E r \in last[1].pre.receipts : r.src = "c.json"
    /\ Cardinality(RowsOf("c.json")) = 1

\* C2: if insert_products_bulk raises during a call, no stores, receipts or
\* products row created by that call is visible after the call.
C2_BulkFailureLeavesNoRows ==
    (Finished(1) /\ last[1].at = "insert_products" /\ last[1].outcome = "failure") =>
        /\ stores = last[1].pre.stores
        /\ receipts = last[1].pre.receipts
        /\ product_rows = last[1].pre.product_rows

TxSteps == {"duplicate_check", "insert_receipt", "insert_receipt_row",
            "insert_products", "commit"}

\* C3: in process_receipt_file an exception raised at any step of the
\* persistence transaction rolls the transaction back, is reported as a
\* failure and not as a skip, and the file goes to the rejected folder.
C3_TxExceptionIsFailure ==
    (Finished(1) /\ last[1].path = "file" /\ last[1].fault_at \in TxSteps) =>
        /\ last[1].outcome = "failure"
        /\ "rejected" \in files[last[1].doc]
        /\ receipts = last[1].pre.receipts
        /\ product_rows = last[1].pre.product_rows

\* C4: when the duplicate check finds an existing receipt with the same
\* (date, time, final_price), process_receipt_file writes no row to stores,
\* receipts or products, returns None and moves the file to parsed.
C4_DuplicateWritesNothing ==
    (Finished(1) /\ last[1].path = "file" /\ last[1].outcome = "skip_duplicate") =>
        /\ stores = last[1].pre.stores
        /\ receipts = last[1].pre.receipts
        /\ product_rows = last[1].pre.product_rows
        /\ last[1].result = 0
        /\ "parsed" \in files[last[1].doc]

\* C5: when two processes ingest the same document concurrently, exactly one
\* receipts row with its product rows is committed, and the other process
\* ends with the duplicate-skip outcome and commits nothing.
C5_ConcurrentIngestionOneRow ==
    LET f == last[1].doc
        prods == parse_products(DocOf(f).events)
    IN (/\ Finished(1) /\ Finished(2)
        /\ last[1].doc = last[2].doc
        /\ last[1].overlapped /\ last[2].overlapped
        /\ last[1].fault_at = "" /\ last[2].fault_at = ""
        /\ ~bulk_raises(prods)) =>
           /\ Cardinality(RowsOf(f)) = 1
           /\ \A r \in RowsOf(f) :
                 Len(SelectSeq(product_rows, LAMBDA row : row.receipt_id = r.receipt_id))
                     = Len(prods)
           /\ \E w \in Procs :
                 /\ last[w].outcome = "success"
                 /\ \A l \in Procs \ {w} :
                       last[l].outcome \in {"skip_duplicate", "skip_exists_or_error"}

\* ---------------------------------------------------- parse_receipt claims
SellIndexes(b) == {i \in 1..Len(b) : b[i].tag = "sellLine"}

\* the body index of the k-th sell line
RECURSIVE NthSell(_, _, _)
NthSell(b, k, from) ==
    IF b[from].tag = "sellLine"
    THEN IF k = 1 THEN from ELSE NthSell(b, k - 1, from + 1)
    ELSE NthSell(b, k, from + 1)

\* the number a raw JSON scalar states: n/d for a number or a string
\* written with '.', 0 when the scalar is absent or not a number
RawNum(raw) == IF raw.k \in {"int", "str"} THEN Dec(raw.n, raw.d) ELSE Dec(0, 1)

\* C6: a sell line flagged as storno produces no entry in the product list,
\* wherever it occurs: the parsed list has one product per non-storno sell
\* line.
C6_StornoExcluded ==
    parsed => Len(products) = Cardinality({i \in SellIndexes(body) : ~body[i].isStorno})

Expected_Mleko ==
    [product_name |-> <<"Mleko", "3.2%">>, tax_type |-> "A",
     unit_price_before |-> 350, total_price_before |-> 350,
     total_discount |-> 50, total_after_discount |-> 300]

IsExpectedMleko(p) ==
    /\ p.product_name = Expected_Mleko.product_name
    /\ p.tax_type = Expected_Mleko.tax_type
    /\ \A f \in {"unit_price_before", "total_price_before", "total_discount",
                 "total_after_discount"} :
           p[f].d = 100 /\ p[f].n = Expected_Mleko[f]

\* C7 as stated: the sell line {name: "Mleko 3.2% A", price: 350,
\* quantity: "1"} followed by the discount line {value: 50, vatId: "A",
\* base: 350} gives exactly one product: Mleko 3.2%, A, 3.50, 3.50, 0.50,
\* 3.00.
C7_ScenarioAsStated ==
    (parsed /\ body = <<MlekoNoTotal, RabatMleko>>) =>
        Len(products) = 1 /\ IsExpectedMleko(products[1])

\* C7 amended: with total: 350 on the sell line, the same document gives
\* exactly one product: Mleko 3.2%, A, 3.50, 3.50, 0.50, 3.00 (and unit
\* discount 0.50, unit price after discount 3.00); without the total field
\* total_price_before is 0.00 and the discount is dropped.
C7_ScenarioWithTotal ==
    /\ (parsed /\ body = <<Mleko, RabatMleko>>) =>
          /\ Len(products) = 1
          /\ IsExpectedMleko(products[1])
          /\ products[1].unit_discount.n = 50
          /\ products[1].unit_after_discount.n = 300
    /\ (parsed /\ body = <<MlekoNoTotal, RabatMleko>>) =>
          /\ Len(products) = 1
          /\ products[1].total_price_before.n = 0
          /\ products[1].total_discount.n = 0
          /\ products[1].total_after_discount.n = 0

C7_Witness ==
    parsed /\ body = <<Mleko, RabatMleko>> /\ Len(products) = 1

\* the match condition of the claim: same tax type, and base / 100 equal to
\* the pending product's total_price_before
ClaimedMatch(d, p) ==
    /\ d.vatId = p.tax_type
    /\ RawNum(d.base).n * p.total_price_before.d
         = p.total_price_before.n * RawNum(d.base).d * 100

NoDiscountOn(p) ==
    /\ p.total_discount.n = 0
    /\ p.unit_discount.n = 0
    /\ DecEq(p.unit_after_discount, p.unit_price_before)
    /\ DecEq(p.total_after_discount, p.total_price_before)

AtDiscountLine == ~parsed /\ idx <= Len(body) /\ body[idx].tag = "discountLine"

\* C8 as stated: a discountLine changes the pending product only when its
\* vatId and base match; in every other case the discount is dropped and
\* the product keeps total_discount = 0, unit_discount = 0 and after-discount
\* prices equal to its before-discount prices.
C8_DroppedLeavesZero ==
    [][(AtDiscountLine /\ pending_product # <<>>
           /\ ~ClaimedMatch(body[idx], pending_product[1]))
         => (pending_product' = pending_product /\ NoDiscountOn(pending_product'[1]))]_vars

\* C8 amended: a discountLine changes the pending product only when its
\* vatId and base match; in every other case the discount is dropped and
\* the pending product and the product list are left as they were, so a
\* product with no matching discount line keeps zero discounts and
\* after-discount prices equal to its before-discount prices.
C8_DroppedLeavesUnchanged ==
    /\ [][AtDiscountLine =>
            /\ products' = products
            /\ (pending_product = <<>> \/ ~ClaimedMatch(body[idx], pending_product[1]))
                 => pending_product' = pending_product]_vars
    /\ [](\A k \in 1..Len(products) :
            LET i == NthSell(body, k, 1)
                later == {j \in SellIndexes(body) : j > i}
                stop == IF later = {} THEN Len(body) + 1
                        ELSE CHOOSE j \in later : \A m \in later : j <= m
            IN (\A j \in (i + 1)..(stop - 1) :
                    body[j].tag = "discountLine" => ~ClaimedMatch(body[j], products[k]))
                 => NoDiscountOn(products[k]))

C8_Witness ==
    /\ parsed
    /\ body = <<Mleko, RabatBase, RabatVat>>
    /\ Len(products) = 1
    /\ NoDiscountOn(products[1])

C10_PrintOrder ==
    LET done == IF parsed THEN Len(body) ELSE idx - 1
        sells == {i \in 1..done : body[i].tag = "sellLine"}
        emitted == Len(products) + Len(pending_product)
        rows == products_data(products, 1)
    IN /\ emitted = Cardinality(sells)
       /\ parsed => pending_product = <<>>
       /\ Len(rows) = Len(products)
       /\ \A k \in 1..Len(products) :
             LET sell == body[NthSell(body, k, 1)]
             IN /\ rows[k].receipt_id = 1
                /\ rows[k].product_name[1] = sell.name[1]
                /\ rows[k].unit_price_before.n * RawNum(sell.price).d
                      = RawNum(sell.price).n
                /\ rows[k].total_price_before.n * RawNum(sell.total).d
                      = RawNum(sell.total).n

C10_Witness ==
    /\ parsed
    /\ body = <<Chleb, Mleko, Mleko>>
    /\ Len(products) = 3
    /\ products[2] = products[3]
    /\ products[1].product_name = <<"Chleb">>

\* C11: the receipt number handed to insert_receipt is the first non-empty
\* of the fiscalFooter billNumber, the headerData docNumber and the
\* transaction number of an addLine, otherwise the Unix time as a string, and
\* it is never empty.
C11_ReceiptNumberResolved ==
    \A p \in Procs :
        proc[p].pc \in {"insert_receipt", "insert_receipt_row"} =>
            LET d == DocOf(proc[p].doc)
                rn == proc[p].receipt_number
            IN /\ rn # ""
               /\ d.billNumber # "" => rn = d.billNumber
               /\ (d.billNumber = "" /\ d.docNumber # "") => rn = d.docNumber
               /\ (d.billNumber = "" /\ d.docNumber = "" /\ d.txn # "") => rn = d.txn
               /\ (d.billNumber = "" /\ d.docNumber = "" /\ d.txn = "") =>
                      \E t \in 0..MaxClock : rn = ToString(t)

\* the number a raw JSON scalar writes down, whatever its form
SourceNum(raw) == Dec(raw.n, raw.d)

Stated(raw) == raw.k \in {"int", "float", "str", "comma"}

\* C12: every persisted quantity is the source quantity rounded half-up to
\* 3 fractional digits and every persisted money amount the source
\* minor-unit amount divided by 100, rounded half-up to 2 fractional digits,
\* for a source written as a string or as a number.
C12_PersistedPrecision ==
    parsed =>
        \A k \in 1..Len(products) :
            LET sell == body[NthSell(body, k, 1)]
                row == product_row(products[k], 1)
            IN /\ row.quantity.d = 1000
               /\ row.unit_price_before.d = 100
               /\ row.total_price_before.d = 100
               /\ sell.quantity.k \in {"int", "float", "str"} =>
                      row.quantity = quantize(SourceNum(sell.quantity), 1000)
               /\ sell.price.k \in {"int", "float", "str"} =>
                      row.unit_price_before =
                          quantize(DecDiv(SourceNum(sell.price), Dec(100, 1)), 100)
               /\ sell.total.k \in {"int", "float", "str"} =>
                      row.total_price_before =
                          quantize(DecDiv(SourceNum(sell.total), Dec(100, 1)), 100)

\* C13: a quantity written with ',' as the decimal separator is parsed to the
\* value the same string written with '.' has ("1,5" gives 1.500), not to
\* the default 0.
C13_CommaAccepted ==
    parsed =>
        \A k \in 1..Len(products) :
            LET sell == body[NthSell(body, k, 1)]
            IN sell.quantity.k = "comma" =>
                   /\ products[k].quantity =
                          quantize(safe_decimal(StrRaw(sell.quantity.n, sell.quantity.d)), 1000)
                   /\ products[k].quantity.n # 0

\* C14: a file skipped because its payment name is in the ignore list, or
\* because the operator gives no payment name, is moved to the parsed
\* folder; no row is written and None is returned without an exception.
C14_PaymentSkipMovesFile ==
    LET c == last[1]
    IN (Finished(1) /\ c.path = "file"
            /\ c.outcome \in {"skip_ignored", "skip_declined"}) =>
          /\ "parsed" \in files[c.doc]
          /\ "to_check" \notin files[c.doc]
          /\ c.result = 0
          /\ ~c.raised
          /\ stores = c.pre.stores
          /\ receipts = c.pre.receipts
          /\ product_rows = c.pre.product_rows
          /\ user_payments = c.pre.user_payments

\* C15: process_receipt_file never raises; malformed JSON or an exception
\* during persistence makes it return None with the file in the rejected
\* folder, the rows committed for earlier files are still there and the
\* driver is free to take the next file.
C15_FileCallNeverRaises ==
    LET c == last[1]
    IN (Finished(1) /\ c.path = "file") =>
          /\ ~c.raised
          /\ (c.at = "json_load" \/ c.fault_at \in TxSteps \cup {"insert_store"}) =>
                 /\ c.result = 0
                 /\ "rejected" \in files[c.doc]
                 /\ "parsed" \notin files[c.doc]
          /\ c.pre.receipts \subseteq receipts
          /\ Len(c.pre.product_rows) <= Len(product_rows)
          /\ SubSeq(product_rows, 1, Len(c.pre.product_rows)) = c.pre.product_rows

\* the product rows stored for receipt id
ProductRowsOf(id) == {j \in 1..Len(product_rows) : product_rows[j].receipt_id = id}

\* C16: process_receipt_data returns the id of a receipt whose row and
\* product rows are committed, or raises; it never returns None, and when it
\* raises because the document duplicates an existing receipt the call has
\* written no receipt and no product row.
C16_DataPathIdOrRaise ==
    LET c == last[1]
        pd == products_data(parse_products(DocOf(c.doc).events), c.result)
    IN (Finished(1) /\ c.path = "data") =>
          /\ c.raised <=> c.result = 0
          /\ ~c.raised =>
                 /\ \E r \in receipts \ c.pre.receipts :
                        r.receipt_id = c.result /\ r.src = c.doc
                 /\ Cardinality(ProductRowsOf(c.result)) = Len(pd)
                 /\ \A i \in 1..Len(pd) : \E j \in ProductRowsOf(c.result) :
                        product_rows[j] = pd[i]
          /\ (c.raised /\ c.outcome = "skip_duplicate") =>
                 /\ receipts = c.pre.receipts
                 /\ product_rows = c.pre.product_rows

C16_Witness ==
    /\ Finished(1)
    /\ last[1].path = "data"
    /\ last[1].outcome = "skip_duplicate"
    /\ last[1].raised
    /\ \E r \in receipts : r.src = last[1].doc /\ ProductRowsOf(r.receipt_id) # {}

\* what keeps a data-path call from storing its document whatever the
\* payment name: a database error, a duplicate, a product without tax type
Hindered(c) ==
    \/ c.fault_at # ""
    \/ c.outcome \in {"skip_duplicate", "skip_exists_or_error"}
    \/ bulk_raises(parse_products(DocOf(c.doc).events))

Returned(p, op) == call[p].pc = "done" /\ call[p].op = op

\* C18: user_payments never holds two rows for one payment_name; a call of
\* insert_user_payment that meets no database error does not raise and
\* returns the user_id the name is mapped to, also when another writer
\* mapped the name after this call's existence check, and no mapping that
\* existed when the call began has changed.
C18_UserPaymentIdempotent ==
    /\ \A m1, m2 \in user_payments : m1[1] = m2[1] => m1 = m2
    /\ \A p \in Procs :
           (Returned(p, "insert_user_payment") /\ call[p].fault_at = "") =>
               /\ ~call[p].raised
               /\ <<call[p].name, call[p].ret>> \in user_payments
               /\ call[p].pre.user_payments \subseteq user_payments

\* the name was unmapped when the call began, and the call returns the
\* mapping another writer committed meanwhile
C18_Witness ==
    \E p \in Procs :
        /\ Returned(p, "insert_user_payment")
        /\ call[p].fault_at = ""
        /\ call[p].at = "iup_insert"
        /\ call[p].name \notin mapped_names(call[p].pre.user_payments)
        /\ call[p].ret # call[p].uid
        /\ <<call[p].name, call[p].ret>> \in user_payments

\* C19: in get_user_id_for_payment_name a database error during the lookup
\* reaches the caller as an exception, and a name without mapping gives
\* None without one, so the caller can tell the two apart.
C19_LookupErrorPropagates ==
    \A p \in Procs :
        Returned(p, "get_user_id_for_payment_name") =>
            /\ call[p].fault_at # "" => call[p].raised
            /\ (call[p].fault_at = ""
                    /\ call[p].name \notin mapped_names(call[p].pre.user_payments)) =>
                   ~call[p].raised /\ call[p].ret = 0

SameStore(a, b) ==
    /\ a.store_name = b.store_name
    /\ a.store_address = b.store_address
    /\ a.postal_code = b.postal_code

\* C20: stores never holds two rows with one (store_name, store_address,
\* postal_code); insert_store with a triple that exists returns the id of
\* the existing row and overwrites its city, with a new triple it adds one
\* row, and a plain second INSERT of an existing triple is rejected.
C20_StoreUpsert ==
    /\ [](\A i, j \in 1..Len(stores) : SameStore(stores[i], stores[j]) => i = j)
    /\ [][\A p \in Procs :
             LET c == call'[p]
                 was == store_index(stores, c.st)
             IN call'[p] # call[p] =>
                   /\ (c.op = "insert_store" /\ ~c.raised) =>
                          /\ c.ret \in 1..Len(stores')
                          /\ SameStore(stores'[c.ret], c.st)
                          /\ stores'[c.ret].store_city = c.st.store_city
                          /\ was # {} => c.ret \in was /\ Len(stores') = Len(stores)
                          /\ was = {} => Len(stores') = Len(stores) + 1
                          /\ \A k \in 1..Len(stores) :
                                 k # c.ret => stores'[k] = stores[k]
                   /\ (c.op = "raw_insert_store" /\ was # {}) =>
                          c.raised /\ stores' = stores]_vars

C20_Witness ==
    \E p \in Procs :
        /\ Returned(p, "insert_store")
        /\ ~call[p].raised
        /\ call[p].st = BiedronkaMoved
        /\ \E k \in 1..Len(call[p].pre.stores) : call[p].pre.stores[k] = Biedronka
        /\ stores[call[p].ret] = BiedronkaMoved

\* the rows of tbl that hold the key a call for file f inserts
HeldKey(tbl, f) ==
    {r \in tbl : /\ r.store_id \in store_index(stores, HeaderOf(f))
                 /\ r.receipt_number = header_receipt_number(DocOf(f), 0)
                 /\ r.date = HeaderOf(f).date
                 /\ r.time = HeaderOf(f).time}

\* the rows of tbl the duplicate check of a call for file f finds
SameSale(tbl, f) ==
    {r \in tbl : /\ r.date = HeaderOf(f).date
                 /\ r.time = HeaderOf(f).time
                 /\ r.final_price = final_price_of(HeaderOf(f))}

\* C21: no two receipts rows share (store_id, receipt_number, date, time);
\* an ingestion whose quadruple a committed row holds gets no receipt id and
\* adds no row, while an ingestion that meets no error and no row of the
\* same sale is stored even when a row of another store carries its
\* receipt_number, date and time.
C21_ReceiptKeyUnique ==
    /\ \A r1, r2 \in receipts :
           (/\ r1.store_id = r2.store_id
            /\ r1.receipt_number = r2.receipt_number
            /\ r1.date = r2.date
            /\ r1.time = r2.time) => r1 = r2
    /\ \A p \in Procs :
           Finished(p) =>
               LET c == last[p]
               IN /\ HeldKey(c.pre.receipts, c.doc) # {} =>
                         /\ c.result = 0
                         /\ c.outcome # "success"
                         /\ HeldKey(receipts, c.doc) = HeldKey(c.pre.receipts, c.doc)
                  /\ (/\ HeldKey(c.pre.receipts, c.doc) = {}
                      /\ SameSale(c.pre.receipts, c.doc) = {}
                      /\ c.fault_at = ""
                      /\ ~c.overlapped) =>
                         /\ c.outcome = "success"
                         /\ \E r \in HeldKey(receipts, c.doc) : r.receipt_id = c.result

\* a row of another store with the same number, date and time was there
\* when the call began, and the call stored its receipt
C21_Witness ==
    \E p \in Procs :
        /\ Finished(p)
        /\ last[p].outcome = "success"
        /\ \E r \in last[p].pre.receipts, n \in HeldKey(receipts, last[p].doc) :
               /\ n.receipt_id = last[p].result
               /\ r.receipt_number = n.receipt_number
               /\ r.date = n.date
               /\ r.time = n.time
               /\ r.store_id # n.store_id

\* C22: when neither the headerText block nor a store sub-object gives a
\* store name, the header the pipeline parses has store_name 'Unknown Store'.
C22_UnknownStoreSentinel ==
    \A p \in Procs :
        (/\ Returned(p, "parse_receipt")
         /\ call[p].st.headerText = ""
         /\ call[p].st.store = "") =>
            call[p].name = "Unknown Store" /\ ~call[p].raised

\* C23: when a call of process_receipt_file ends with success, duplicate
\* skip or failure, the file is no longer in the to-check folder and is in
\* the parsed folder (success, duplicate) or the rejected folder (failure),
\* and the move loses no file: as many files of that name exist after the
\* call's last step as before it.
C23_FileMovedOnce ==
    [][\A p \in Procs :
          (/\ last'[p] # last[p]
           /\ last'[p].path = "file"
           /\ last'[p].outcome \in {"success", "skip_duplicate", "failure"}) =>
              LET f == last'[p].doc
                  target == IF last'[p].outcome = "failure" THEN "rejected" ELSE "parsed"
              IN /\ "to_check" \notin files'[f]
                 /\ target \in files'[f]
                 /\ Cardinality(files'[f]) = Cardinality(files[f])]_vars

\* what the claim asks of a request: every user exists, every share lies in
\* 0..100 and the shares of each product sum to 100 within 0.01
C24_Valid(request) ==
    \A i \in 1..Len(request) :
        /\ \A j \in 1..Len(request[i].shares) :
               /\ request[i].shares[j][1] \in UserIds
               /\ request[i].shares[j][2] >= 0
               /\ request[i].shares[j][2] <= 100
        /\ 100 * sum_shares(request[i].shares, 1) >= 9999
        /\ 100 * sum_shares(request[i].shares, 1) <= 10001

C25_Written(c) ==
    {c.st[i] : i \in {k \in 1..Len(c.st) :
                         \A j \in (k + 1)..Len(c.st) :
                             ~(c.st[j][1] = c.st[k][1] /\ c.st[j][2] = c.st[k][2])}}

\* C25: shares holds at most one row per (product_id, user_id) after any
\* sequence of share writes; a write for a pair that has a row replaces the
\* value of that row, and the rows of other users of the product and of
\* other products stay as they are
C25_OneSharePerPair ==
    /\ [](\A s \in shares : \A t \in shares : s[1] = t[1] /\ s[2] = t[2] => s = t)
    /\ [][(/\ runs' # runs
           /\ call'[1].op \in {"insert_share", "insert_shares_bulk", "handle_count_receipts"}
           /\ ~call'[1].raised /\ call'[1].fault_at = "") =>
             /\ C25_Written(call'[1]) \subseteq shares'
             /\ \A s \in shares :
                    \/ s \in shares'
                    \/ \E w \in C25_Written(call'[1]) : w[1] = s[1] /\ w[2] = s[2]]_vars

\* insert_share wrote 60 (or 30) for user 1 on product 1 after an earlier
\* write had given both users 50: one row for user 1 with the new value,
\* the row of user 2 and the rows of product 2 as they were
C25_Witness ==
    /\ call[1].op = "insert_share"
    /\ ~call[1].raised
    /\ call[1].st[1][1] = 1 /\ call[1].st[1][2] = 1
    /\ call[1].st[1] \in shares
    /\ <<1, 1, 50>> \notin shares
    /\ <<1, 2, 50>> \in shares

\* C26: every receipt and every manual expense that is settled is counted,
\* in every reachable state; a receipt is never taken back from counted to
\* uncounted, and a step that sets settled sets it on rows that were counted
C26_SettledImpliesCounted ==
    /\ [](/\ \A r \in receipts : r.settled => r.counted
          /\ \A m \in manual_expenses : m.settled => m.counted)
    /\ [][/\ \A r \in receipts : \A q \in receipts' :
                 r.receipt_id = q.receipt_id =>
                     /\ r.counted => q.counted
                     /\ (q.settled /\ ~r.settled) => r.counted
          /\ \A m \in manual_expenses : \A q \in manual_expenses' :
                 m.manual_expense_id = q.manual_expense_id =>
                     /\ m.counted => q.counted
                     /\ (q.settled /\ ~m.settled) => m.counted]_vars

\* a finalization has run while one receipt was counted and the other was
\* not: the first is settled, the second is neither
C26_Witness ==
    /\ call[1].op \in {"finalize_settlement", "handle_show_settlement_summary",
                       "settle_all_expenses"}
    /\ call[1].fault_at = ""
    /\ \E r \in receipts : r.settled /\ r.counted
    /\ \E r \in receipts : ~r.counted /\ ~r.settled

\* the settlements rows of this step that an item links the row to
C27_Links(kind, id) ==
    {s \in settlements' \ settlements :
        <<s.settlement_id, kind, id>> \in settlement_items'}

\* C27: every receipt and every manual expense that a finalization marks
\* settled is linked through settlement_items to exactly one settlements
\* row, and that row is created by the same finalization, whatever the
\* balances of the users are
C27_SettledIsLinked ==
    [][(/\ runs' # runs
        /\ call'[1].op \in {"finalize_settlement", "handle_show_settlement_summary"}) =>
          /\ \A r \in receipts : \A q \in receipts' :
                 (r.receipt_id = q.receipt_id /\ ~r.settled /\ q.settled) =>
                     Cardinality(C27_Links("receipt", q.receipt_id)) = 1
          /\ \A m \in manual_expenses : \A q \in manual_expenses' :
                 (m.manual_expense_id = q.manual_expense_id /\ ~m.settled /\ q.settled) =>
                     Cardinality(C27_Links("manual_expense", q.manual_expense_id)) = 1]_vars

\* the discount lines between the k-th sell line and the next sell line
\* that match product p, by their body index
C28_Matching(k, p) ==
    LET i == NthSell(body, k, 1)
        later == {j \in SellIndexes(body) : j > i}
        stop == IF later = {} THEN Len(body) + 1
                ELSE CHOOSE j \in later : \A m \in later : j <= m
    IN {j \in (i + 1)..(stop - 1) :
           body[j].tag = "discountLine" /\ ClaimedMatch(body[j], p)}

\* C28: a product carries at most one discount: when several matching
\* discount lines follow its sell line, total_discount is the value of the
\* last of them divided by 100 (not their sum, not the first), and the unit
\* discount and both after-discount prices come from that one value
C28_LastDiscountWins ==
    \A k \in 1..Len(products) :
        LET p == products[k]
            hits == C28_Matching(k, p)
            j == CHOOSE x \in hits : \A y \in hits : y <= x
            value == DecDiv(RawNum(body[j].value), Dec(100, 1))
            unit == IF p.quantity.n > 0 THEN DecDiv(value, p.quantity) ELSE Dec(0, 1)
        IN hits # {} =>
              /\ DecEq(p.total_discount, quantize(value, 100))
              /\ DecEq(p.total_after_discount,
                       quantize(DecSub(p.total_price_before, value), 100))
              /\ DecEq(p.unit_discount, quantize(unit, 100))
              /\ DecEq(p.unit_after_discount,
                       quantize(DecSub(p.unit_price_before, unit), 100))

\* Mleko followed by its discount of 0.50 and then its discount of 0.70:
\* the product carries 0.70 and costs 2.80
C28_Witness ==
    /\ parsed
    /\ body = <<Mleko, RabatMleko, RabatMleko2>>
    /\ Len(products) = 1
    /\ products[1].total_discount.n = 70 /\ products[1].total_discount.d = 100
    /\ products[1].total_after_discount.n = 280

\* C29: a receipt whose payment name is in the ignore list is never
\* persisted, neither by process_receipt_file nor by process_receipt_data:
\* no row of receipts carries an ignored payment name
C29_IgnoredNeverPersisted ==
    \A r \in receipts : r.payment_name \notin ignored_payment_names

\* C30: process_receipt_file returns a receipt id only when the receipt row
\* and every product row of the document are committed, and they are
\* committed before the step that moves the file to the parsed folder and
\* returns; when the commit fails the call returns None, the file goes to
\* the rejected folder and the database shows no receipt or product row of
\* the call
C30_IdOnlyAfterCommit ==
    [][\A p \in Procs :
          (last'[p] # last[p] /\ last'[p].path = "file") =>
             LET l == last'[p]
                 f == l.doc
                 prods == products_data(parse_products(HeaderOf(f).events), l.result)
                 mine == ProductRowsOf(l.result)
             IN /\ l.result # 0 =>
                     /\ \E r \in receipts : r.receipt_id = l.result /\ r.src = f
                     /\ Cardinality(mine) = Len(prods)
                     /\ \A i \in 1..Len(prods) : \E j \in mine : product_rows[j] = prods[i]
                     /\ receipts' = receipts /\ product_rows' = product_rows
                     /\ "parsed" \in files'[f] /\ "to_check" \notin files'[f]
                /\ l.fault_at = "commit" =>
                     /\ l.result = 0
                     /\ "rejected" \in files'[f] /\ "to_check" \notin files'[f]
                     /\ receipts' = l.pre.receipts
                     /\ product_rows' = l.pre.product_rows]_vars

\* a.json was ingested and its id returned, then the commit of f.json
\* failed: a.json is in the parsed folder with its rows stored, f.json is
\* in the rejected folder and has no row
C30_Witness ==
    /\ proc[1].pc = "idle"
    /\ last[1].doc = "f.json" /\ last[1].path = "file"
    /\ last[1].fault_at = "commit" /\ last[1].result = 0
    /\ "rejected" \in files["f.json"]
    /\ "parsed" \in files["a.json"]
    /\ RowsOf("a.json") # {}
    /\ RowsOf("f.json") = {}
    /\ \A r \in RowsOf("a.json") : ProductRowsOf(r.receipt_id) # {}
====
